---- MODULE Spec2Model ----
(***************************************************************************)
(* The asynchronous job lifecycle of ai-office/backend: the job tables,    *)
(* the three orchestrators run_excel_job / run_analytics_job /             *)
(* run_report_job, the static validator and the sandbox child, as a state  *)
(* machine.  One action is one step of a run between two interleaving      *)
(* points (a committed row update, a file operation, a model call, a       *)
(* child process).                                                         *)
(***************************************************************************)
EXTENDS Integers, Sequences, FiniteSets, TLC

VARIABLES
    settings,   \* the cached Settings: is deepseek_api_key set
    rows,       \* the job tables: job_id -> row, for the rows that exist
    files,      \* the work directory of every job id
    nextJob,    \* number of job ids handed out so far
    queue,      \* job_id -> dispatches of run(job_id) not yet started
    run,        \* run invocation -> its position and locals
    wlog,       \* run invocation -> a digest of the row updates it has committed
    candidate,  \* validate_generated_code on its own: the code it is given
    verdict,    \* validate_generated_code on its own: how the call ended
    proc,       \* a sandbox child process on its own: arguments, position, files
    sse,        \* chat_completions_stream on its own: the lines, what was yielded
    llm_reply,  \* code extraction on its own: the model's reply, what was extracted
    pacer,      \* a streaming generation on its own: the clock, the on_update calls
    request,    \* the last create-job request and how it was answered
    dataset     \* extract_dataset_metadata on its own: the file, the metadata

vars == <<settings, rows, files, nextJob, queue, run, wlog, candidate, verdict, proc,
          sse, llm_reply, pacer, request, dataset>>

\* the state of the components taken on their own, which no step of the
\* job lifecycle touches
units == <<candidate, verdict, proc, sse, llm_reply, pacer, request, dataset>>

\* the state of the job lifecycle, which no component on its own touches
lifecycle == <<settings, rows, files, nextJob, queue, run, wlog>>

(***************************************************************************)
(* Bounds                                                                  *)
(***************************************************************************)
MaxJobs == 1
MaxOthers == 1      \* further jobs, where jobs run side by side
MaxRedeliver == 1
MaxDeltas == 1
MaxStmts == 2       \* top-level statements of a candidate given to the validator

JobIds == 1..(MaxJobs + MaxOthers)
RunIds == 1..(MaxJobs + MaxOthers + MaxRedeliver)
Kinds == {"transform", "analytics", "report"}

(***************************************************************************)
(* Optional values: None is the empty sequence, Some(v) the singleton.     *)
(***************************************************************************)
None == <<>>
Some(v) == <<v>>

(***************************************************************************)
(* Texts.  A message is a sequence of fragments; `x in message` is a       *)
(* search for a fragment, message.lower() lowers every fragment.           *)
(***************************************************************************)
Contains(msg, frag) == \E i \in DOMAIN msg : msg[i] = frag

LowerFrag(f) ==
    CASE f = "Timed Out" -> "timed out"
      [] f = "ReadTimeout" -> "readtimeout"
      [] f = "DeepSeek request failed: " -> "deepseek request failed: "
      [] f = "DeepSeek API error: HTTP " -> "deepseek api error: http "
      [] f = "LLM did not return python code with analyze()." ->
             "llm did not return python code with analyze()."
      [] f = "LLM did not return valid JSON." -> "llm did not return valid json."
      [] f = "LLM returned empty markdown." -> "llm returned empty markdown."
      [] f = "Gateway " -> "gateway "
      [] OTHER -> f

Lower(msg) == [i \in DOMAIN msg |-> LowerFrag(msg[i])]

StartsWith(msg, frag) == Len(msg) > 0 /\ msg[1] = frag

(***************************************************************************)
(* A detail text is a slice of a source text: text[-n:] keeps the last n   *)
(* characters.                                                             *)
(***************************************************************************)
Text(src, len) == [src |-> src, from |-> 0, len |-> len]

\* text[:n] in place of text[-n:]
LastChars_First(t, n) ==
    IF t.len > n THEN [src |-> t.src, from |-> t.from, len |-> n]
    ELSE t

LastChars(t, n) ==
    IF t.len > n THEN [src |-> t.src, from |-> t.from + (t.len - n), len |-> n]
    ELSE t

MaxDetailChars == 8000
SnippetChars == 2000
DeltaLens == {1200}

(***************************************************************************)
(* Job rows (db/models.py) and the store operations.                       *)
(***************************************************************************)
Stamp(r, what) == [by |-> r, at |-> what]

NoArgs ==
    [status |-> None, started_at |-> None, finished_at |-> None,
     llm_model |-> None, summary |-> None, error |-> None,
     stage |-> None, progress |-> None, detail |-> None]

\* create_*_job: the row a create call inserts
NewRow(kind) ==
    [kind |-> kind, status |-> "queued",
     created_at |-> Some(Stamp(0, "create")),
     started_at |-> None, finished_at |-> None,
     llm_model |-> None, summary |-> None, error |-> None,
     stage |-> Some("queued"), progress |-> Some(0), detail |-> None]

\* UpdatedRow storing every argument, None included
UpdatedRow_Overwrite(row, a) ==
    [row EXCEPT
        !.status = IF a.status # None THEN a.status[1] ELSE @,
        !.started_at = a.started_at,
        !.finished_at = a.finished_at,
        !.llm_model = a.llm_model,
        !.summary = a.summary,
        !.error = a.error,
        !.stage = a.stage,
        !.progress = a.progress,
        !.detail = IF a.detail # None
                   THEN Some(LastChars(a.detail[1], MaxDetailChars))
                   ELSE None]

\* update_*_job applied to an existing row: every non-None argument is stored
UpdatedRow(row, a) ==
    [row EXCEPT
        !.status = IF a.status # None THEN a.status[1] ELSE @,
        !.started_at = IF a.started_at # None THEN a.started_at ELSE @,
        !.finished_at = IF a.finished_at # None THEN a.finished_at ELSE @,
        !.llm_model = IF a.llm_model # None THEN a.llm_model ELSE @,
        !.summary = IF a.summary # None THEN a.summary ELSE @,
        !.error = IF a.error # None THEN a.error ELSE @,
        !.stage = IF a.stage # None THEN a.stage ELSE @,
        !.progress = IF a.progress # None THEN a.progress ELSE @,
        !.detail = IF a.detail # None
                   THEN Some(LastChars(a.detail[1], MaxDetailChars))
                   ELSE @]

\* db.get(Model, job_id) finds a row
RowExists(j) == j \in DOMAIN rows

\* the table after delete_*_job(job_id)
DeleteRow(j) == [k \in (DOMAIN rows) \ {j} |-> rows[k]]

(***************************************************************************)
(* Generated code, as the syntax tree ast.parse gives: the nodes in the    *)
(* order ast.walk visits them.  A dotted name is its components.           *)
(***************************************************************************)
Node(t, names, attr) == [t |-> t, names |-> names, attr |-> attr]
Import(names) == Node("Import", names, "")
ImportFrom(module) == Node("ImportFrom", <<module>>, "")
Call(func) == Node("Call", <<<<func>>>>, "")
\* a call whose func is not a Name
CallOther == Node("Call", <<<<>>>>, "")
Attribute(value, attr) == Node("Attribute", <<<<value>>>>, attr)
FunctionDef(name, where) == Node("FunctionDef", <<<<name>>>>, where)
Code(ok, nodes) == [ok |-> ok, nodes |-> nodes]

\* _ALLOWED_IMPORTS with socket added
_ALLOWED_IMPORTS_AndSocket ==
    {"pandas", "numpy", "openpyxl", "matplotlib", "math", "re", "datetime",
     "typing", "collections", "socket"}

_ALLOWED_IMPORTS ==
    {"pandas", "numpy", "openpyxl", "matplotlib", "math", "re", "datetime",
     "typing", "collections"}

\* _BANNED_NAMES without exec
_BANNED_NAMES_NoExec ==
    {"eval", "__import__", "compile", "open", "input", "globals", "locals"}

_BANNED_NAMES ==
    {"eval", "exec", "__import__", "compile", "open", "input", "globals", "locals"}

_BANNED_MODULES == {"os", "sys", "subprocess", "socket"}

\* "a.b.c" as fragments
RECURSIVE Dotted(_)
Dotted(name) ==
    IF Len(name) = 0 THEN <<>>
    ELSE IF Len(name) = 1 THEN <<name[1]>>
    ELSE <<name[1], ".">> \o Dotted(Tail(name))

\* name.split(".")[0]
TopModule(name) == IF Len(name) = 0 THEN "" ELSE name[1]

\* the first alias of an Import node outside the allowlist, or 0
RECURSIVE BadAlias(_, _)
BadAlias(names, i) ==
    IF i > Len(names) THEN 0
    ELSE IF TopModule(names[i]) \notin _ALLOWED_IMPORTS THEN i
    ELSE BadAlias(names, i + 1)

\* the error one node raises, or None
NodeViolation(n) ==
    IF n.t = "Import" THEN
        IF BadAlias(n.names, 1) # 0
        THEN Some(<<"Disallowed import: ">> \o Dotted(n.names[BadAlias(n.names, 1)]))
        ELSE None
    ELSE IF n.t = "ImportFrom" THEN
        IF TopModule(n.names[1]) # "" /\ TopModule(n.names[1]) \notin _ALLOWED_IMPORTS
        THEN Some(<<"Disallowed import: ">> \o Dotted(n.names[1]))
        ELSE None
    ELSE IF n.t = "Call" /\ n.names[1] # <<>> THEN
        IF n.names[1][1] \in _BANNED_NAMES
        THEN Some(<<"Disallowed builtin call: ", n.names[1][1], "()">>)
        ELSE None
    ELSE IF n.t = "Attribute" THEN
        IF n.names[1][1] \in _BANNED_MODULES
        THEN Some(<<"Disallowed module usage: ", n.names[1][1], ".", n.attr>>)
        ELSE None
    ELSE None

\* WalkFrom without the test of has_required after the loop
RECURSIVE WalkFrom_NoEntryCheck(_, _, _, _)
WalkFrom_NoEntryCheck(nodes, i, has_required, required_function) ==
    IF i > Len(nodes) THEN None
    ELSE IF NodeViolation(nodes[i]) # None THEN NodeViolation(nodes[i])
    ELSE WalkFrom_NoEntryCheck(nodes, i + 1, has_required, required_function)

\* the loop over ast.walk(tree) from node i on, has_required so far
RECURSIVE WalkFrom(_, _, _, _)
WalkFrom(nodes, i, has_required, required_function) ==
    IF i > Len(nodes) THEN
        IF has_required THEN None
        ELSE Some(<<"Missing required function: ", required_function, "()">>)
    ELSE IF NodeViolation(nodes[i]) # None THEN NodeViolation(nodes[i])
    ELSE WalkFrom(nodes, i + 1,
                  has_required \/ (nodes[i].t = "FunctionDef"
                                   /\ nodes[i].names[1][1] = required_function),
                  required_function)

\* validate_generated_code: None when it returns, Some(str(exc)) when it
\* raises SandboxValidationError
validate_generated_code(code, required_function) ==
    IF ~code.ok THEN Some(<<"SyntaxError: ", "invalid syntax">>)
    ELSE WalkFrom(code.nodes, 1, FALSE, required_function)

\* the entry function each sandboxed flavor requires
RequiredFunction(kind) == IF kind = "transform" THEN "transform" ELSE "analyze"

\* replies a model can give, as the code extracted from them
GoodCode(f) == Code(TRUE, <<Import(<<<<"pandas">>>>), FunctionDef(f, "top")>>)
SubprocessCode(f) ==
    Code(TRUE, <<Import(<<<<"subprocess">>>>), FunctionDef(f, "top")>>)
HelperOnlyCode == Code(TRUE, <<Import(<<<<"pandas">>>>), FunctionDef("helper", "top")>>)
\* the entry function defined inside another function
NestedEntryCode(f) ==
    Code(TRUE, <<FunctionDef("helper", "top"), FunctionDef(f, "nested")>>)
GeneratedCodes(kind) ==
    {GoodCode(RequiredFunction(kind)), SubprocessCode(RequiredFunction(kind)),
     HelperOnlyCode, NestedEntryCode(RequiredFunction(kind))}

(***************************************************************************)
(* validate_generated_code on its own.  A candidate is the tree ast.parse  *)
(* gives, each node with its child nodes; ast.walk turns it into the       *)
(* sequence the validator's loop visits.                                   *)
(***************************************************************************)
Tree(node, children) == [node |-> node, children |-> children]
Leaf(node) == Tree(node, <<>>)
Module(body) == Tree(Node("Module", <<>>, ""), body)
Expr(value) == Tree(Node("Expr", <<>>, ""), <<Leaf(value)>>)
Def(name, where, body) == Tree(FunctionDef(name, where), body)
AsyncDef(name) == Leaf(Node("AsyncFunctionDef", <<<<name>>>>, "top"))
ClassDef(name, body) == Tree(Node("ClassDef", <<<<name>>>>, ""), body)
\* the statement value.attr()
CallAttr(value, attr) ==
    Tree(Node("Expr", <<>>, ""), <<Tree(CallOther, <<Leaf(Attribute(value, attr))>>)>>)

\* ast.walk: todo = deque([node]); pop a node from the left, append its
\* children, yield it
RECURSIVE ast_walk(_)
ast_walk(todo) ==
    IF todo = <<>> THEN <<>>
    ELSE <<Head(todo).node>> \o ast_walk(Tail(todo) \o Head(todo).children)

\* statements without a body
SimpleStmts ==
    {Leaf(Import(<<<<"pandas">>>>)),
     Leaf(Import(<<<<"os", "path">>>>)),
     Leaf(Import(<<<<"numpy">>, <<"subprocess">>>>)),
     Leaf(ImportFrom(<<"matplotlib", "pyplot">>)),
     Leaf(ImportFrom(<<"socket">>)),
     Leaf(ImportFrom(<<>>)),
     Expr(Call("eval")),
     Expr(Call("print")),
     Expr(Attribute("sys", "exit")),
     CallAttr("os", "system"),
     CallAttr("df", "eval")}

\* bodies of a function definition
Bodies(f) ==
    {<<>>, <<Leaf(Import(<<<<"subprocess">>>>))>>, <<Leaf(Import(<<<<"pandas">>>>))>>,
     <<Expr(Call("eval"))>>, <<Def(f, "nested", <<>>)>>}

\* bodies of a class definition
ClassBodies(f) == {<<Def(f, "nested", <<>>)>>, <<Expr(Call("exec"))>>}

\* top-level statements of a candidate
Statements(f) ==
    SimpleStmts \cup {Def(n, "top", b) : n \in {f, "helper"}, b \in Bodies(f)}
                \cup {AsyncDef(f)}
                \cup {ClassDef("Tool", b) : b \in ClassBodies(f)}

\* the candidates: text that does not parse, and modules of up to MaxStmts
\* statements
Candidates ==
    {[ok |-> FALSE, body |-> <<>>, required_function |-> f] :
        f \in {"transform", "analyze"}}
    \cup UNION {{[ok |-> TRUE, body |-> b, required_function |-> f] :
                    b \in UNION {[1..n -> Statements(f)] : n \in 0..MaxStmts}} :
                f \in {"transform", "analyze"}}

\* ast.parse(code) and the nodes in ast.walk order
Parsed(c) == Code(c.ok, IF c.ok THEN ast_walk(<<Module(c.body)>>) ELSE <<>>)


(***************************************************************************)
(* Exceptions: the class and str(exc).                                     *)
(***************************************************************************)
Exc(cls, msg) == [cls |-> cls, msg |-> msg]

\* message = str(exc) or repr(exc)
StrOrRepr(exc) == IF exc.msg = <<>> THEN <<exc.cls, "()">> ELSE exc.msg

\* update_*_job: raise KeyError(job_id)
KeyError == Exc("KeyError", <<"'job_id'">>)

\* run_*_job: if not settings.deepseek_api_key
NoApiKey == Exc("RuntimeError", <<"DEEPSEEK_API_KEY is not set.">>)

\* DeepSeekClient.chat_completions / chat_completions_stream: what a failed
\* model call raises
ReadTimeoutError ==
    Exc("RuntimeError", <<"DeepSeek request failed: ", "ReadTimeout", "('')">>)
HttpStatusError ==
    Exc("RuntimeError", <<"DeepSeek API error: HTTP ", "500", " for url ", "body">>)
GatewayTimeoutError ==
    Exc("RuntimeError",
        <<"DeepSeek API error: HTTP ", "504", " for url ", "Gateway ", "Timed Out">>)
ModelErrors == {ReadTimeoutError, HttpStatusError, GatewayTimeoutError}

\* _extract_python_code / _extract_json / _extract_markdown: no payload
ExtractionError(kind) ==
    IF kind = "analytics"
    THEN Exc("ValueError", <<"LLM did not return python code with analyze().">>)
    ELSE IF kind = "transform"
    THEN Exc("ValueError", <<"LLM did not return valid JSON.">>)
    ELSE Exc("ValueError", <<"LLM returned empty markdown.">>)

\* extract_dataset_metadata / extract_workbook_metadata / analyze_inputs_and_charts
MetadataError == Exc("ValueError", <<"Unsupported file type. Only .csv/.txt/.xlsx supported.">>)
FileNotFound == Exc("FileNotFoundError", <<"[Errno 2] No such file or directory">>)
JSONDecodeError == Exc("JSONDecodeError", <<"Expecting value">>)

\* subprocess.run(..., timeout=...) when the child has not exited in time
TimeoutExpired ==
    Exc("TimeoutExpired", <<"Command 'python -m app.sandbox' ", "timed out", " after 120.0 seconds">>)

SandboxFailed(code) ==
    Exc("RuntimeError", <<"Sandbox execution failed.", "exit=", code>>)
NoSummary == Exc("RuntimeError", <<"No summary.json generated.">>)
NoOutput == Exc("RuntimeError", <<"No output.xlsx generated.">>)
OutputTooLarge == Exc("RuntimeError", <<"Output too large: ", "MB">>)
NoInputFiles == Exc("RuntimeError", <<"No input files.">>)

SandboxValidationError(msg) == Exc("SandboxValidationError", msg)

\* is_timeout = "ReadTimeout" in message or "timed out" in message.lower()
is_timeout(message) ==
    Contains(message, "ReadTimeout") \/ Contains(Lower(message), "timed out")

(***************************************************************************)
(* Run invocations.                                                        *)
(***************************************************************************)
IdleRun ==
    [pc |-> "idle", job |-> 0, kind |-> "none",
     attempt |-> 0,          \* the loop variable of the codegen loop
     deltas |-> 0,           \* deltas received in the current streaming call
     content |-> 0,          \* characters of "".join(parts)
     exc |-> None,           \* the exception being propagated
     codegen |-> None,       \* codegen.python_code
     analysis |-> None,      \* the parsed result artifact
     llm |-> None,           \* llm_summary
     child |-> None,         \* the code text the sandbox child loaded
     \* history of the invocation, read by the properties only
     calls |-> 0,            \* codegen calls made
     first_error |-> None,   \* what the first codegen call raised
     validated |-> None,     \* the code validate_generated_code accepted
     launched |-> FALSE,     \* a sandbox child was started
     sandbox |-> "none",     \* how the sandbox wait ended
     read_artifact |-> FALSE,
     summarize |-> "none",   \* how the summarization step ended
     failed_at |-> "none"]   \* the step that raised

\* raise exc at step `at`: control goes to the except clauses of run_*_job
Raise(rec, exc, at) ==
    [rec EXCEPT !.pc = "except", !.exc = Some(exc),
                !.failed_at = IF @ = "none" THEN at ELSE @]

At(rec, pc) == [rec EXCEPT !.pc = pc]

\* the invocation is over: its locals are gone, the history stays
Finished(rec, pc) ==
    [IdleRun EXCEPT !.pc = pc, !.job = rec.job, !.kind = rec.kind,
                    !.calls = rec.calls, !.first_error = rec.first_error,
                    !.validated = rec.validated, !.launched = rec.launched,
                    !.sandbox = rec.sandbox, !.read_artifact = rec.read_artifact,
                    !.summarize = rec.summarize, !.failed_at = rec.failed_at]

\* The digest of the updates a run has committed: the first and the last
\* one, how many carried a terminal status, how many came after a terminal
\* one, and the last progress value written.
NoWrites ==
    [first |-> None, last |-> None, terminals |-> 0, after |-> 0, progress |-> None]

IsTerminal(a) == a.status = Some("succeeded") \/ a.status = Some("failed")

Logged(w, a) ==
    [first |-> IF w.last = None THEN Some(a) ELSE w.first,
     last |-> Some(a),
     terminals |-> w.terminals + (IF IsTerminal(a) THEN 1 ELSE 0),
     after |-> w.after + (IF w.terminals > 0 THEN 1 ELSE 0),
     progress |-> IF a.progress # None THEN a.progress ELSE w.progress]

\* A step of run r works on the table, its digest and its record.
Ctx(r) == [rows |-> rows, w |-> wlog[r], rec |-> run[r]]

\* TryUpdate inserting the row when it is absent
TryUpdate_Upsert(c, a, onOk, onKeyError) ==
    [rows |-> [j \in (DOMAIN c.rows) \cup {c.rec.job} |->
                  IF j = c.rec.job
                  THEN UpdatedRow(IF j \in DOMAIN c.rows THEN c.rows[j]
                                  ELSE NewRow(c.rec.kind), a)
                  ELSE c.rows[j]],
     w |-> Logged(c.w, a),
     rec |-> onOk]

\* one update_*_job(job_id, **a) call: the commit and then onOk, or KeyError
\* and then onKeyError
TryUpdate(c, a, onOk, onKeyError) ==
    IF c.rec.job \in DOMAIN c.rows
    THEN [rows |-> [c.rows EXCEPT ![c.rec.job] = UpdatedRow(@, a)],
          w |-> Logged(c.w, a),
          rec |-> onOk]
    ELSE [c EXCEPT !.rec = onKeyError]

\* _update(stage, progress, detail) of run_analytics_job / run_report_job
StageArgs(stage, progress, detail) ==
    [NoArgs EXCEPT !.stage = Some(stage), !.progress = Some(progress),
                   !.detail = Some(detail)]

\* ClaimArgs without the start timestamp
ClaimArgs_Unstamped(r, kind) ==
    [NoArgs EXCEPT !.status = Some("running")]

\* the first update of a run: status="running", started_at=utcnow(), and for
\* analytics and report stage="starting", progress=0.01
ClaimArgs(r, kind) ==
    IF kind = "transform"
    THEN [NoArgs EXCEPT !.status = Some("running"),
                        !.started_at = Some(Stamp(r, "start"))]
    ELSE [NoArgs EXCEPT !.status = Some("running"),
                        !.started_at = Some(Stamp(r, "start")),
                        !.stage = Some("starting"), !.progress = Some(1)]

\* FailedArgs without the tag of the except SandboxValidationError clause
FailedArgs_Untagged(r, kind, exc) ==
    [NoArgs EXCEPT !.status = Some("failed"),
                   !.finished_at = Some(Stamp(r, "finish")),
                   !.error = Some(StrOrRepr(exc)),
                   !.stage = IF kind = "transform" THEN None ELSE Some("failed")]

\* the update of the except clauses
FailedArgs(r, kind, exc) ==
    LET error == IF exc.cls = "SandboxValidationError" /\ kind # "report"
                 THEN <<"ValidationError: ">> \o exc.msg
                 ELSE StrOrRepr(exc)
        base == [NoArgs EXCEPT !.status = Some("failed"),
                               !.finished_at = Some(Stamp(r, "finish")),
                               !.error = Some(error)]
    IN IF kind = "transform" THEN base
       ELSE [base EXCEPT !.stage = Some("failed")]

\* settings.deepseek_model
deepseek_model == "deepseek-chat"

\* the update of the success path
SucceededArgs(r, kind, summary) ==
    LET base == [NoArgs EXCEPT !.status = Some("succeeded"),
                               !.finished_at = Some(Stamp(r, "finish")),
                               !.llm_model = Some(deepseek_model),
                               !.summary = summary]
    IN IF kind = "transform" THEN base
       ELSE [base EXCEPT !.stage = Some("done"), !.progress = Some(100)]

\* Handled without the except clauses
Handled_Unhandled(r, c) == c

\* the except clauses of run_*_job: an exception raised in the step is
\* recorded on the row; when that update raises too, it leaves the run
Handled(r, c) ==
    IF c.rec.pc = "except"
    THEN TryUpdate(c, FailedArgs(r, c.rec.kind, c.rec.exc[1]),
                   Finished(c.rec, "done"), Finished(c.rec, "escaped"))
    ELSE c

\* the step of run r ends in c
Commit(r, c) ==
    LET h == Handled(r, c)
    IN /\ rows' = h.rows
       /\ wlog' = [wlog EXCEPT ![r] = h.w]
       /\ run' = [run EXCEPT ![r] = h.rec]

\* a step that makes no update of its own and leaves run r in rec
Local(r, rec) == Commit(r, [Ctx(r) EXCEPT !.rec = rec])

(***************************************************************************)
(* The work directory of a job.                                            *)
(***************************************************************************)
NoFiles == [dir |-> FALSE, code |-> None, artifact |-> "absent", output |-> "absent"]
Uploaded == [dir |-> TRUE, code |-> None, artifact |-> "absent", output |-> "absent"]

\* the mapping the child serialises into the result artifact
ArtifactMapping == [source |-> "summary.json"]

(***************************************************************************)
(* The request layer and the dispatch of runs.                             *)
(***************************************************************************)
NoJobs ==
    /\ rows = <<>>
    /\ files = [j \in JobIds |-> NoFiles]
    /\ nextJob = 0
    /\ queue = [j \in JobIds |-> 0]
    /\ run = [r \in RunIds |-> IdleRun]
    /\ wlog = [r \in RunIds |-> NoWrites]

\* the components other than u are not in use
Unused(u) ==
    /\ IF u = "validator" THEN TRUE ELSE candidate = None /\ verdict = None
    /\ IF u = "child" THEN TRUE ELSE proc = None
    /\ IF u = "stream" THEN TRUE ELSE sse = None
    /\ IF u = "extraction" THEN TRUE ELSE llm_reply = None
    /\ IF u = "pacer" THEN TRUE ELSE pacer = None
    /\ IF u = "create" THEN TRUE ELSE request = None
    /\ IF u = "metadata" THEN TRUE ELSE dataset = None

Init ==
    /\ settings \in [deepseek_api_key : BOOLEAN]
    /\ NoJobs
    /\ Unused("lifecycle")

\* deliveries of run(job_id) beyond the one of the create request
Redelivered ==
    LET Started == {r \in RunIds : run[r].pc # "idle"}
        Queued[j \in 0..(MaxJobs + MaxOthers)] ==
            IF j = 0 THEN 0 ELSE Queued[j - 1] + queue[j]
    IN Cardinality(Started) + Queued[MaxJobs + MaxOthers] - nextJob

\* POST /jobs: store the upload, insert the queued row, dispatch run(job_id)
CreateJob(kind) ==
    /\ nextJob < MaxJobs
    /\ nextJob' = nextJob + 1
    /\ rows' = [j \in (DOMAIN rows) \cup {nextJob + 1} |->
                   IF j = nextJob + 1 THEN NewRow(kind) ELSE rows[j]]
    /\ files' = [files EXCEPT ![nextJob + 1] = Uploaded]
    /\ queue' = [queue EXCEPT ![nextJob + 1] = @ + 1]
    /\ UNCHANGED <<units, settings, run, wlog>>

\* POST /jobs while other jobs are there
CreateOtherJob(kind) ==
    /\ nextJob >= MaxJobs
    /\ nextJob < MaxJobs + MaxOthers
    /\ nextJob' = nextJob + 1
    /\ rows' = [j \in (DOMAIN rows) \cup {nextJob + 1} |->
                   IF j = nextJob + 1 THEN NewRow(kind) ELSE rows[j]]
    /\ files' = [files EXCEPT ![nextJob + 1] = Uploaded]
    /\ queue' = [queue EXCEPT ![nextJob + 1] = @ + 1]
    /\ UNCHANGED <<units, settings, run, wlog>>

\* DELETE /jobs/{job_id}: remove the work directory, then the row
DeleteJob(j) ==
    /\ RowExists(j)
    /\ files' = [files EXCEPT ![j] = NoFiles]
    /\ rows' = DeleteRow(j)
    /\ UNCHANGED <<units, settings, nextJob, queue, run, wlog>>

\* the queue delivers process_*_job(job_id) once more (a duplicate enqueue)
Redeliver(j) ==
    /\ j <= nextJob
    /\ Redelivered < MaxRedeliver
    /\ queue' = [queue EXCEPT ![j] = @ + 1]
    /\ UNCHANGED <<units, settings, rows, files, nextJob, run, wlog>>

\* run_*_job(job_id) up to its first update: return when the row is absent,
\* else claim it
StartRun(r, j) ==
    /\ run[r].pc = "idle"
    /\ \A q \in RunIds : q < r => run[q].pc # "idle"
    /\ queue[j] > 0
    /\ queue' = [queue EXCEPT ![j] = @ - 1]
    /\ IF RowExists(j)
       THEN Commit(r, TryUpdate([Ctx(r) EXCEPT !.rec.job = j],
                                ClaimArgs(r, rows[j].kind),
                                [IdleRun EXCEPT !.pc = "begin", !.job = j,
                                                !.kind = rows[j].kind],
                                IdleRun))
       ELSE /\ run' = [run EXCEPT ![r] = [IdleRun EXCEPT !.pc = "returned", !.job = j]]
            /\ UNCHANGED <<rows, wlog>>
    /\ UNCHANGED <<units, settings, files, nextJob>>

(***************************************************************************)
(* The streaming generation call of run_analytics_job and run_report_job.  *)
(***************************************************************************)
\* CodegenExcept retrying the first attempt whatever it raised
CodegenExcept_RetryAny(rec, exc, at) ==
    LET noted == [rec EXCEPT !.first_error =
                      IF rec.attempt = 0 /\ rec.calls = 1 THEN Some(exc) ELSE @]
    IN IF rec.kind = "analytics" /\ rec.attempt = 0
       THEN At(noted, "a_retry")
       ELSE Raise(noted, exc, at)

\* what catches an exception of the generation step: in run_analytics_job
\* the except clause of the codegen loop (retry a timeout of the first
\* attempt, re-raise anything else); in run_report_job nothing
CodegenExcept(rec, exc, at) ==
    LET noted == [rec EXCEPT !.first_error =
                      IF rec.attempt = 0 /\ rec.calls = 1 THEN Some(exc) ELSE @]
    IN IF rec.kind = "analytics" /\ rec.attempt = 0 /\ is_timeout(StrOrRepr(exc))
       THEN At(noted, "a_retry")
       ELSE Raise(noted, exc, at)

\* snippet = (text or "")[-2000:]
Snippet(content) == LastChars(Text("stream", content), SnippetChars)

\* the _update call that precedes the request
GeneratingArgs(kind) ==
    IF kind = "analytics"
    THEN StageArgs("generating_code", 30, Text("generating_code", 17))
    ELSE StageArgs("generating_report", 60, Text("generating_report", 17))

\* on_llm_update(text)
OnUpdateArgs(kind, content) ==
    IF kind = "analytics"
    THEN StageArgs("generating_code", 35, Snippet(content))
    ELSE StageArgs("generating_report", 65, Snippet(content))

\* the head of one attempt: _update("generating_...", ...) and the request
Generate(r) ==
    /\ run[r].pc = "generate"
    /\ Commit(r, TryUpdate(Ctx(r), GeneratingArgs(run[r].kind),
                    [run[r] EXCEPT !.pc = "stream", !.deltas = 0, !.content = 0,
                                   !.calls = @ + 1],
                    CodegenExcept(run[r], KeyError, "row")))
    /\ UNCHANGED <<units, settings, files, nextJob, queue>>

\* one delta of the stream; on_update is called when the interval has passed
StreamDelta(r) ==
    /\ run[r].pc = "stream"
    /\ run[r].deltas < MaxDeltas
    /\ \E n \in DeltaLens, emit \in BOOLEAN :
          LET got == [run[r] EXCEPT !.deltas = @ + 1, !.content = @ + n]
          IN IF emit
             THEN Commit(r, TryUpdate(Ctx(r), OnUpdateArgs(got.kind, got.content),
                            got, CodegenExcept(got, KeyError, "row")))
             ELSE Local(r, got)
    /\ UNCHANGED <<units, settings, files, nextJob, queue>>

\* the model call fails
StreamError(r) ==
    /\ run[r].pc = "stream"
    /\ \E e \in ModelErrors : Local(r, CodegenExcept(run[r], e, "model"))
    /\ UNCHANGED <<units, settings, files, nextJob, queue>>

(***************************************************************************)
(* run_analytics_job, step by step.                                        *)
(***************************************************************************)
AnalyticsBegin(r) ==
    /\ run[r].pc = "begin" /\ run[r].kind = "analytics"
    /\ IF ~settings.deepseek_api_key
       THEN Local(r, Raise(run[r], NoApiKey, "settings"))
       ELSE Commit(r, TryUpdate(Ctx(r),
                        StageArgs("reading_metadata", 10, Text("reading_metadata", 9)),
                        At(run[r], "a_meta"), Raise(run[r], KeyError, "row")))
    /\ UNCHANGED <<units, settings, files, nextJob, queue>>

\* extract_dataset_metadata(input_path, ...)
AnalyticsMetadata(r) ==
    /\ run[r].pc = "a_meta"
    /\ \/ /\ files[run[r].job].dir
          /\ Local(r, At(run[r], "generate"))
       \/ /\ files[run[r].job].dir
          /\ Local(r, Raise(run[r], MetadataError, "metadata"))
       \/ /\ ~files[run[r].job].dir
          /\ Local(r, Raise(run[r], FileNotFound, "metadata"))
    /\ UNCHANGED <<units, settings, files, nextJob, queue>>

\* the stream ends: the last on_update(content), then _extract_python_code
AnalyticsStreamEnd(r) ==
    /\ run[r].pc = "stream" /\ run[r].kind = "analytics"
    /\ \E reply \in GeneratedCodes("analytics") \cup {Code(FALSE, <<>>)} :
          Commit(r, TryUpdate(Ctx(r), OnUpdateArgs("analytics", run[r].content),
                    IF reply.ok /\ run[r].content > 0
                    THEN [run[r] EXCEPT !.pc = "a_validating", !.codegen = Some(reply),
                                        !.deltas = 0, !.content = 0]
                    ELSE CodegenExcept(run[r], ExtractionError("analytics"), "extraction"),
                    CodegenExcept(run[r], KeyError, "row")))
    /\ UNCHANGED <<units, settings, files, nextJob, queue>>

\* AnalyticsRetry leaving the loop variable at 0
AnalyticsRetry_Again(r) ==
    /\ run[r].pc = "a_retry"
    /\ Commit(r, TryUpdate(Ctx(r), StageArgs("retrying", 32, Text("retrying", 22)),
                    [run[r] EXCEPT !.pc = "generate", !.attempt = 0],
                    Raise(run[r], KeyError, "row")))
    /\ UNCHANGED <<units, settings, files, nextJob, queue>>

\* _update("retrying", 0.32, ...), the sleep, and the second iteration
AnalyticsRetry(r) ==
    /\ run[r].pc = "a_retry"
    /\ Commit(r, TryUpdate(Ctx(r), StageArgs("retrying", 32, Text("retrying", 22)),
                    [run[r] EXCEPT !.pc = "generate", !.attempt = 1],
                    Raise(run[r], KeyError, "row")))
    /\ UNCHANGED <<units, settings, files, nextJob, queue>>

AnalyticsValidating(r) ==
    /\ run[r].pc = "a_validating"
    /\ Commit(r, TryUpdate(Ctx(r),
                    StageArgs("validating_code", 55, Text("validating_code", 8)),
                    At(run[r], "a_write"), Raise(run[r], KeyError, "row")))
    /\ UNCHANGED <<units, settings, files, nextJob, queue>>

\* AfterValidation going on whatever the validator says
AfterValidation_Unchecked(rec, next) ==
    [rec EXCEPT !.pc = next, !.validated = rec.codegen]

\* where a run goes after validate_generated_code(code, required_function)
AfterValidation(rec, next) ==
    LET v == validate_generated_code(rec.codegen[1], RequiredFunction(rec.kind))
    IN IF v # None
       THEN Raise(rec, SandboxValidationError(v[1]), "validation")
       ELSE [rec EXCEPT !.pc = next, !.validated = rec.codegen]

\* WriteAndValidate with one code path for all jobs
WriteAndValidate_SharedPath(r, next) ==
    /\ files' = [files EXCEPT ![1].code = run[r].codegen]
    /\ Local(r, AfterValidation(run[r], next))

\* code_path.write_text(codegen.python_code); validate_generated_code(...)
WriteAndValidate(r, next) ==
    IF ~files[run[r].job].dir
    THEN /\ Local(r, Raise(run[r], FileNotFound, "file"))
         /\ UNCHANGED files
    ELSE /\ files' = [files EXCEPT ![run[r].job].code = run[r].codegen]
         /\ Local(r, AfterValidation(run[r], next))

AnalyticsWriteValidate(r) ==
    /\ run[r].pc = "a_write"
    /\ WriteAndValidate(r, "a_sandbox")
    /\ UNCHANGED <<units, settings, nextJob, queue>>

AnalyticsSandboxStage(r) ==
    /\ run[r].pc = "a_sandbox"
    /\ Commit(r, TryUpdate(Ctx(r),
                    StageArgs("running_sandbox", 70, Text("running_sandbox", 16)),
                    At(run[r], "launch"), Raise(run[r], KeyError, "row")))
    /\ UNCHANGED <<units, settings, files, nextJob, queue>>

(***************************************************************************)
(* The sandbox child of both sandboxed flavors.                            *)
(***************************************************************************)
\* subprocess.run starts the child, which loads the code file
Launch(r) ==
    /\ run[r].pc = "launch"
    /\ Local(r, [run[r] EXCEPT !.pc = "wait", !.launched = TRUE,
                               !.child = files[run[r].job].code])
    /\ UNCHANGED <<units, settings, files, nextJob, queue>>

\* the loaded module has a callable of the required name
HasEntry(code, f) ==
    \E i \in DOMAIN code.nodes :
        /\ code.nodes[i].t = "FunctionDef"
        /\ code.nodes[i].names[1][1] = f
        /\ code.nodes[i].attr = "top"

\* json.loads(summary_path.read_text()) on the artifact as it is now
ReadArtifact(rec, artifact, next) ==
    IF artifact = "absent" THEN Raise(rec, FileNotFound, "ingest")
    ELSE IF artifact = "partial"
    THEN Raise([rec EXCEPT !.read_artifact = TRUE], JSONDecodeError, "ingest")
    ELSE [rec EXCEPT !.pc = next, !.read_artifact = TRUE,
                     !.analysis = Some(ArtifactMapping)]

\* what run_*_job does when subprocess.run returns with exit code 0:
\* analytics needs summary.json; transform needs output.xlsx within the size
\* limit and reads summary.json when there is one
AfterExitZero(rec, f) ==
    LET ran == [rec EXCEPT !.sandbox = IF f.artifact = "absent"
                                       THEN "exit0_no_artifact" ELSE "exit0"]
    IN IF rec.kind = "analytics"
       THEN IF f.artifact = "absent"
            THEN Raise(ran, NoSummary, "sandbox")
            ELSE At(ran, "a_final")
       ELSE IF f.output = "absent" THEN Raise(ran, NoOutput, "sandbox")
            ELSE IF f.output = "big" THEN Raise(ran, OutputTooLarge, "sandbox")
            ELSE IF f.artifact = "absent" THEN At(ran, "x_succeed")
            ELSE ReadArtifact(ran, f.artifact, "x_succeed")

\* what the entry function left at the output location: output.xlsx of a
\* transform, the files of output_dir of an analysis
Outputs(kind) ==
    CASE kind = "transform" -> {"absent", "ok", "big"}
      [] kind = "analytics" -> {"absent", "big"}
      [] OTHER -> {"absent"}

\* main() of the child returns 0: the entry function returned and the
\* result artifact is written (analytics_runner creates output_dir first)
ChildDone(r) ==
    /\ run[r].pc = "wait"
    /\ run[r].child # None
    /\ HasEntry(run[r].child[1], RequiredFunction(run[r].kind))
    /\ run[r].kind = "transform" => files[run[r].job].dir
    /\ \E out \in Outputs(run[r].kind) :
          LET f == [files[run[r].job] EXCEPT
                        !.dir = TRUE, !.artifact = "valid",
                        !.output = IF out = "absent" THEN @ ELSE out]
          IN /\ files' = [files EXCEPT ![run[r].job] = f]
             /\ Local(r, AfterExitZero(run[r], f))
    /\ UNCHANGED <<units, settings, nextJob, queue>>

\* the child exits by itself without writing the artifact: with a non-zero
\* code (1: an uncaught exception, 3: no callable entry function), or with
\* 0 (the generated code raised SystemExit(0)); the entry function of a
\* transform may have written its output before
ChildExit(r) ==
    /\ run[r].pc = "wait"
    /\ \E code \in {"0", "1", "3"}, out \in Outputs(run[r].kind) :
          LET wrote == /\ out # "absent" /\ files[run[r].job].dir
                       /\ run[r].child # None
                       /\ HasEntry(run[r].child[1], RequiredFunction(run[r].kind))
              f == IF wrote THEN [files[run[r].job] EXCEPT !.output = out]
                   ELSE files[run[r].job]
          IN /\ code = "3" => (/\ run[r].child # None
                               /\ ~HasEntry(run[r].child[1], RequiredFunction(run[r].kind)))
             /\ code = "0" => run[r].child # None
             /\ files' = [files EXCEPT ![run[r].job] = f]
             /\ Local(r, IF code # "0"
                         THEN Raise([run[r] EXCEPT !.sandbox = "nonzero"],
                                    SandboxFailed(code), "sandbox")
                         ELSE AfterExitZero(run[r], f))
    /\ UNCHANGED <<units, settings, nextJob, queue>>

\* ChildTimeout handled as a normal exit of the child
ChildTimeout_Trusted(r) ==
    /\ run[r].pc = "wait"
    /\ \E written \in {"partial", "valid"} :
          LET f == [files[run[r].job] EXCEPT !.dir = TRUE, !.artifact = written,
                                             !.output = "ok"]
          IN /\ files' = [files EXCEPT ![run[r].job] = f]
             /\ Local(r, [AfterExitZero(run[r], f) EXCEPT !.sandbox = "timeout"])
    /\ UNCHANGED <<units, settings, nextJob, queue>>

\* the child has not exited after sandbox_timeout_seconds: it is killed and
\* subprocess.run raises TimeoutExpired; whatever the child wrote stays
ChildTimeout(r) ==
    /\ run[r].pc = "wait"
    /\ \E written \in {"unchanged", "partial", "valid"} :
          files' = IF written = "unchanged" \/ run[r].child = None
                      \/ (run[r].kind = "transform" /\ ~files[run[r].job].dir)
                   THEN files
                   ELSE [files EXCEPT ![run[r].job].dir = TRUE,
                                      ![run[r].job].artifact = written]
    /\ Local(r, Raise([run[r] EXCEPT !.sandbox = "timeout"], TimeoutExpired, "sandbox"))
    /\ UNCHANGED <<units, settings, nextJob, queue>>

(***************************************************************************)
(* run_analytics_job after the sandbox.                                    *)
(***************************************************************************)
AnalyticsFinalizing(r) ==
    /\ run[r].pc = "a_final"
    /\ Commit(r, TryUpdate(Ctx(r), StageArgs("finalizing", 90, Text("finalizing", 6)),
                    At(run[r], "a_read"), Raise(run[r], KeyError, "row")))
    /\ UNCHANGED <<units, settings, files, nextJob, queue>>

\* analysis = json.loads(summary_path.read_text())
AnalyticsIngest(r) ==
    /\ run[r].pc = "a_read"
    /\ Local(r, ReadArtifact(run[r], files[run[r].job].artifact, "a_summarizing"))
    /\ UNCHANGED <<units, settings, files, nextJob, queue>>

\* the inner try: _update("summarizing", 0.94, ...); a failure is swallowed
AnalyticsSummarizing(r) ==
    /\ run[r].pc = "a_summarizing"
    /\ Commit(r, TryUpdate(Ctx(r), StageArgs("summarizing", 94, Text("summarizing", 19)),
                    At(run[r], "a_summarize"),
                    [run[r] EXCEPT !.pc = "a_succeed", !.llm = None,
                                   !.summarize = "update_failed"]))
    /\ UNCHANGED <<units, settings, files, nextJob, queue>>

\* AnalyticsSummarize with its failures reaching the outer except clause
AnalyticsSummarize_Fatal(r) ==
    /\ run[r].pc = "a_summarize"
    /\ \E how \in {"ok", "model_error", "timeout", "unparseable"} :
          Local(r, IF how = "ok"
                   THEN [run[r] EXCEPT !.pc = "a_succeed", !.summarize = how,
                                       !.llm = Some([text |-> "text"])]
                   ELSE Raise([run[r] EXCEPT !.summarize = how],
                              ReadTimeoutError, "summarize"))
    /\ UNCHANGED <<units, settings, files, nextJob, queue>>

\* summarize_analytics_result: the reply parsed, or any exception (swallowed)
AnalyticsSummarize(r) ==
    /\ run[r].pc = "a_summarize"
    /\ \E how \in {"ok", "model_error", "timeout", "unparseable"} :
          Local(r, [run[r] EXCEPT !.pc = "a_succeed", !.summarize = how,
                       !.llm = IF how = "ok" THEN Some([text |-> "text"]) ELSE None])
    /\ UNCHANGED <<units, settings, files, nextJob, queue>>

\* summary = {"analysis": analysis} plus "llm" when llm_summary is not None
AnalyticsSummary(rec) ==
    IF rec.llm # None
    THEN [analysis |-> rec.analysis[1], llm |-> rec.llm[1]]
    ELSE [analysis |-> rec.analysis[1]]

AnalyticsSucceed(r) ==
    /\ run[r].pc = "a_succeed"
    /\ Commit(r, TryUpdate(Ctx(r),
                    SucceededArgs(r, "analytics", Some(AnalyticsSummary(run[r]))),
                    Finished(run[r], "done"), Raise(run[r], KeyError, "row")))
    /\ UNCHANGED <<units, settings, files, nextJob, queue>>

(***************************************************************************)
(* run_excel_job, step by step.                                            *)
(***************************************************************************)
\* the key check and extract_workbook_metadata(input_path)
TransformBegin(r) ==
    /\ run[r].pc = "begin" /\ run[r].kind = "transform"
    /\ IF ~settings.deepseek_api_key
       THEN Local(r, Raise(run[r], NoApiKey, "settings"))
       ELSE \/ /\ files[run[r].job].dir
               /\ Local(r, At(run[r], "x_call"))
            \/ /\ files[run[r].job].dir
               /\ Local(r, Raise(run[r], MetadataError, "metadata"))
            \/ /\ ~files[run[r].job].dir
               /\ Local(r, Raise(run[r], FileNotFound, "metadata"))
    /\ UNCHANGED <<units, settings, files, nextJob, queue>>

\* generate_excel_code: the model call fails, or _extract_json finds no
\* code, or the code is returned
TransformCodegen(r) ==
    /\ run[r].pc = "x_call"
    /\ LET called == [run[r] EXCEPT !.calls = @ + 1]
       IN \/ \E e \in ModelErrors :
                Local(r, Raise([called EXCEPT !.first_error = Some(e)], e, "model"))
          \/ Local(r, Raise([called EXCEPT
                                !.first_error = Some(ExtractionError("transform"))],
                            ExtractionError("transform"), "extraction"))
          \/ \E reply \in GeneratedCodes("transform") :
                Local(r, [called EXCEPT !.pc = "x_write", !.codegen = Some(reply)])
    /\ UNCHANGED <<units, settings, files, nextJob, queue>>

TransformWriteValidate(r) ==
    /\ run[r].pc = "x_write"
    /\ WriteAndValidate(r, "launch")
    /\ UNCHANGED <<units, settings, nextJob, queue>>

\* summary is the parsed summary.json, or None when there is no such file
TransformSucceed(r) ==
    /\ run[r].pc = "x_succeed"
    /\ Commit(r, TryUpdate(Ctx(r), SucceededArgs(r, "transform", run[r].analysis),
                    Finished(run[r], "done"), Raise(run[r], KeyError, "row")))
    /\ UNCHANGED <<units, settings, files, nextJob, queue>>

(***************************************************************************)
(* run_report_job, step by step.                                           *)
(***************************************************************************)
ReportBegin(r) ==
    /\ run[r].pc = "begin" /\ run[r].kind = "report"
    /\ IF ~settings.deepseek_api_key
       THEN Local(r, Raise(run[r], NoApiKey, "settings"))
       ELSE Commit(r, TryUpdate(Ctx(r),
                        StageArgs("reading_inputs", 8, Text("reading_inputs", 9)),
                        At(run[r], "r_inputs"), Raise(run[r], KeyError, "row")))
    /\ UNCHANGED <<units, settings, files, nextJob, queue>>

\* the input files, analyze_inputs_and_charts, analysis_path.write_text
ReportAnalyze(r) ==
    /\ run[r].pc = "r_inputs"
    /\ \/ /\ files[run[r].job].dir
          /\ Local(r, [run[r] EXCEPT !.pc = "generate",
                                     !.analysis = Some(ArtifactMapping)])
       \/ /\ files[run[r].job].dir
          /\ Local(r, Raise(run[r], MetadataError, "metadata"))
       \/ /\ ~files[run[r].job].dir
          /\ Local(r, Raise(run[r], NoInputFiles, "metadata"))
    /\ UNCHANGED <<units, settings, files, nextJob, queue>>

\* the stream ends: the last on_update(content), then _extract_markdown and
\* report_path.write_text
ReportStreamEnd(r) ==
    /\ run[r].pc = "stream" /\ run[r].kind = "report"
    /\ Commit(r, TryUpdate(Ctx(r), OnUpdateArgs("report", run[r].content),
                 IF run[r].content = 0
                 THEN Raise(run[r], ExtractionError("report"), "extraction")
                 ELSE IF ~files[run[r].job].dir
                 THEN Raise(run[r], FileNotFound, "file")
                 ELSE [run[r] EXCEPT !.pc = "r_succeed", !.deltas = 0, !.content = 0],
                 Raise(run[r], KeyError, "row")))
    /\ UNCHANGED <<units, settings, files, nextJob, queue>>

\* summary = {"analysis": ..., "llm": {"model": ..., "report_artifact": ...}}
ReportSummary(rec) ==
    [analysis |-> rec.analysis[1],
     llm |-> [model |-> deepseek_model, report_artifact |-> "report.md"]]

ReportSucceed(r) ==
    /\ run[r].pc = "r_succeed"
    /\ Commit(r, TryUpdate(Ctx(r),
                    SucceededArgs(r, "report", Some(ReportSummary(run[r]))),
                    Finished(run[r], "done"), Raise(run[r], KeyError, "row")))
    /\ UNCHANGED <<units, settings, files, nextJob, queue>>

(***************************************************************************)
(* Specifications.                                                         *)
(***************************************************************************)
RunStep(r) ==
    \/ AnalyticsBegin(r)
    \/ AnalyticsMetadata(r)
    \/ Generate(r)
    \/ StreamDelta(r)
    \/ StreamError(r)
    \/ AnalyticsStreamEnd(r)
    \/ AnalyticsRetry(r)
    \/ AnalyticsValidating(r)
    \/ AnalyticsWriteValidate(r)
    \/ AnalyticsSandboxStage(r)
    \/ Launch(r)
    \/ ChildDone(r)
    \/ ChildExit(r)
    \/ ChildTimeout(r)
    \/ AnalyticsFinalizing(r)
    \/ AnalyticsIngest(r)
    \/ AnalyticsSummarizing(r)
    \/ AnalyticsSummarize(r)
    \/ AnalyticsSucceed(r)
    \/ TransformBegin(r)
    \/ TransformCodegen(r)
    \/ TransformWriteValidate(r)
    \/ TransformSucceed(r)
    \/ ReportBegin(r)
    \/ ReportAnalyze(r)
    \/ ReportStreamEnd(r)
    \/ ReportSucceed(r)

\* every job is run once, by the dispatch of its create request
NextOnce ==
    \/ \E k \in Kinds : CreateJob(k)
    \/ \E j \in JobIds : DeleteJob(j)
    \/ \E r \in RunIds, j \in JobIds : StartRun(r, j)
    \/ \E r \in RunIds : RunStep(r)

SpecOnce == Init /\ [][NextOnce]_vars

\* run(job_id) may also be delivered again
Next ==
    \/ NextOnce
    \/ \E j \in JobIds : Redeliver(j)

Spec == Init /\ [][Next]_vars

\* the job is never deleted, and every run that has been started goes on:
\* the event loop resumes it, and each model call and each wait for the
\* child returns, raises or times out
NextKept ==
    \/ \E k \in Kinds : CreateJob(k)
    \/ \E r \in RunIds, j \in JobIds : StartRun(r, j)
    \/ \E r \in RunIds : RunStep(r)

SpecKept == Init /\ [][NextKept]_vars /\ \A r \in RunIds : WF_vars(RunStep(r))

\* several jobs, each run once, side by side
NextSideBySide ==
    \/ NextOnce
    \/ \E k \in Kinds : CreateOtherJob(k)

SpecSideBySide == Init /\ [][NextSideBySide]_vars

\* validate_generated_code on its own, on every candidate
ValidatorInit ==
    /\ settings = [deepseek_api_key |-> TRUE]
    /\ NoJobs
    /\ Unused("validator")
    /\ candidate \in {Some(c) : c \in Candidates}
    /\ verdict = None

\* validate_generated_code(code, required_function=...) is called
Validate ==
    /\ candidate # None /\ verdict = None
    /\ verdict' = Some([raised |-> validate_generated_code(
                                      Parsed(candidate[1]),
                                      candidate[1].required_function)])
    /\ UNCHANGED <<lifecycle, candidate, proc, sse, llm_reply, pacer, request, dataset>>

SpecValidator == ValidatorInit /\ [][Validate]_vars

\* ---------------------------------------------------------------------
\* The sandbox child process (app.sandbox.subprocess_runner for transform,
\* app.sandbox.analytics_runner for analyze) taken on its own.
\* ---------------------------------------------------------------------

\* Python values the entry function may return: a tag, a scalar rendered as
\* text, and the items of a container (for a dict, its key: value pairs).
Py(tag, atom, items) == [py |-> tag, atom |-> atom, items |-> items]
PyNone == Py("None", "", <<>>)
PyInt(n) == Py("int", n, <<>>)
PyStr(t) == Py("str", t, <<>>)
PyNumpyInt(n) == Py("numpy.int64", n, <<>>)
PyObject(t) == Py("object", t, <<>>)
PyList(items) == Py("list", "", items)
PyTuple(items) == Py("tuple", "", items)
PyDict(pairs) == Py("dict", "", pairs)
Pair(key, value) == Py("pair", "", <<key, value>>)

\* JSON documents: null, number, string, array, object (of named members)
Json(tag, atom, items) == [json |-> tag, atom |-> atom, items |-> items]
Member(name, value) == Json("member", name, <<value>>)

\* a dict key as json.dumps writes it; None when it raises TypeError
JsonKey(k) ==
    IF k.py \in {"str", "int"} THEN Some(k.atom) ELSE None

\* _json_default(value): item() of a numpy scalar, else str(value)
_json_default(value) ==
    IF value.py = "numpy.int64" THEN PyInt(value.atom) ELSE PyStr(value.atom)

\* json.dumps(value, default=_json_default) as a document; None when it raises
RECURSIVE json_dumps(_)
json_dumps(value) ==
    CASE value.py = "None" -> Some(Json("null", "", <<>>))
      [] value.py = "int" -> Some(Json("number", value.atom, <<>>))
      [] value.py = "str" -> Some(Json("string", value.atom, <<>>))
      [] value.py \in {"list", "tuple"} ->
            IF \E i \in DOMAIN value.items : json_dumps(value.items[i]) = None
            THEN None
            ELSE Some(Json("array", "",
                      [i \in DOMAIN value.items |-> json_dumps(value.items[i])[1]]))
      [] value.py = "dict" ->
            IF \E i \in DOMAIN value.items :
                   \/ JsonKey(value.items[i].items[1]) = None
                   \/ json_dumps(value.items[i].items[2]) = None
            THEN None
            ELSE Some(Json("object", "",
                      [i \in DOMAIN value.items |->
                          Member(JsonKey(value.items[i].items[1])[1],
                                 json_dumps(value.items[i].items[2])[1])]))
      [] OTHER -> json_dumps(_json_default(value))

\* values returned by the entry function
Returned ==
    {PyNone, PyInt("3"), PyStr("done"), PyNumpyInt("7"), PyObject("<Figure>"),
     PyList(<<PyInt("1"), PyNumpyInt("2")>>),
     PyTuple(<<PyStr("a"), PyNone>>),
     PyList(<<PyDict(<<Pair(PyTuple(<<PyStr("a")>>), PyInt("1"))>>)>>),
     PyDict(<<>>),
     PyDict(<<Pair(PyStr("rows"), PyInt("3"))>>),
     PyDict(<<Pair(PyStr("summary"), PyStr("done"))>>),
     PyDict(<<Pair(PyInt("1"), PyNumpyInt("7")), Pair(PyStr("cols"), PyTuple(<<PyStr("a")>>))>>),
     PyDict(<<Pair(PyTuple(<<PyStr("a"), PyStr("b")>>), PyInt("1"))>>)}

\* exit statuses the generated code may ask for with SystemExit
MaxStatus == 3
Statuses == 0..MaxStatus

\* what the generated module does when it is loaded and when its entry
\* function is called
Script(load, defines, call, status, ret) ==
    [load |-> load, defines |-> defines, call |-> call, status |-> status, ret |-> ret]
Scripts ==
    {Script("raise", "none", "none", 1, PyNone)}
    \cup {Script("exit", "none", "none", n, PyNone) : n \in Statuses}
    \cup {Script("ok", d, "none", 0, PyNone) : d \in {"none", "value"}}
    \cup {Script("ok", "function", "raise", 1, PyNone)}
    \cup {Script("ok", "function", "exit", n, PyNone) : n \in Statuses}
    \cup {Script("ok", "function", "return", 0, v) : v \in Returned}

\* numbers of positional parameters the child is started with
MaxArgs == 6
ArgCounts == (MaxArgs - 2)..MaxArgs

Child == proc[1]
Running == proc # None /\ Child.exit = None

ChildInit ==
    /\ settings = [deepseek_api_key |-> TRUE]
    /\ NoJobs
    /\ Unused("child")
    /\ proc \in {Some([kind |-> k, argc |-> n, script |-> c, pc |-> "main",
                       loaded |-> FALSE, returned |-> FALSE, summary |-> None,
                       dir |-> FALSE, artifact |-> None, writes |-> 0,
                       exit |-> None]) :
                    k \in {"transform", "analyze"}, n \in ArgCounts, c \in Scripts}

Step(p) == /\ proc' = Some(p)
           /\ UNCHANGED <<lifecycle, candidate, verdict, sse, llm_reply, pacer, request, dataset>>

\* the process ends with this status
Exit(n) == Step([Child EXCEPT !.pc = "exited", !.exit = Some(n)])

\* main(): the argument count, the paths, mkdir of the output directory
\* (analyze only), the CPU limit
ChildMain ==
    /\ Running /\ Child.pc = "main"
    /\ IF Child.argc + 1 # MaxArgs
       THEN Exit(2)
       ELSE Step([Child EXCEPT !.pc = "run_path",
                               !.dir = (Child.kind = "analyze")])

\* runpy.run_path(code_path): the module body runs
ChildRunPath ==
    /\ Running /\ Child.pc = "run_path"
    /\ CASE Child.script.load = "raise" -> Exit(1)
         [] Child.script.load = "exit" -> Exit(Child.script.status)
         [] OTHER -> Step([Child EXCEPT !.pc = "lookup", !.loaded = TRUE])

\* namespace.get(name); not callable: return 3
ChildLookup ==
    /\ Running /\ Child.pc = "lookup"
    /\ IF Child.script.defines # "function"
       THEN Exit(3)
       ELSE Step([Child EXCEPT !.pc = "call"])

\* summary = entry(input_path, output)
ChildCall ==
    /\ Running /\ Child.pc = "call"
    /\ CASE Child.script.call = "raise" -> Exit(1)
         [] Child.script.call = "exit" -> Exit(Child.script.status)
         [] OTHER -> Step([Child EXCEPT !.pc = "wrap", !.returned = TRUE,
                                        !.summary = Some(Child.script.ret)])

\* ChildWrap wrapping every returned value, a dict too
ChildWrap_Always ==
    /\ Running /\ Child.pc = "wrap"
    /\ Step([Child EXCEPT !.pc = "write",
                !.summary = Some(PyDict(<<Pair(PyStr("summary"), Child.summary[1])>>))])

\* if not isinstance(summary, dict): summary = {"summary": summary}
ChildWrap ==
    /\ Running /\ Child.pc = "wrap"
    /\ Step([Child EXCEPT !.pc = "write",
                !.summary = IF Child.summary[1].py = "dict"
                            THEN Child.summary
                            ELSE Some(PyDict(<<Pair(PyStr("summary"), Child.summary[1])>>))])

\* summary_path.write_text(json.dumps(summary, ...)): json.dumps runs first,
\* and a TypeError it raises ends the process before the file is opened
ChildWrite ==
    /\ Running /\ Child.pc = "write"
    /\ IF json_dumps(Child.summary[1]) = None
       THEN Exit(1)
       ELSE Step([Child EXCEPT !.pc = "return",
                               !.artifact = json_dumps(Child.summary[1]),
                               !.writes = Child.writes + 1])

\* return 0, raise SystemExit(main())
ChildReturn ==
    /\ Running /\ Child.pc = "return"
    /\ Exit(0)

\* the parent kills the process on its timeout, at any point
ChildKilled ==
    /\ Running
    /\ Exit(-9)

NextChild ==
    \/ ChildMain \/ ChildRunPath \/ ChildLookup \/ ChildCall
    \/ ChildWrap \/ ChildWrite \/ ChildReturn \/ ChildKilled

SpecChild == ChildInit /\ [][NextChild]_vars

\* ---------------------------------------------------------------------
\* update_*_job of the job stores taken on its own: one row, and a caller
\* (caller 1 of the digest) that updates it with details of any length.
\* ---------------------------------------------------------------------
DetailLens == {0, 1, MaxDetailChars, MaxDetailChars + 1, MaxDetailChars + 4000}
Details == {Text(src, n) : src \in {"first", "second"}, n \in DetailLens}
UpdateArgs ==
    {[NoArgs EXCEPT !.detail = Some(t)] : t \in Details}
    \cup {[NoArgs EXCEPT !.stage = Some("validating"), !.progress = Some(55)]}

\* the updates a run makes: the claim, a stage, a detail alone, the failure
\* and the success
RunArgs(kind) ==
    {ClaimArgs(1, kind), FailedArgs(1, kind, NoApiKey),
     SucceededArgs(1, kind, Some(ArtifactMapping)),
     StageArgs("validating", 55, Text("first", MaxDetailChars + 1)),
     [NoArgs EXCEPT !.detail = Some(Text("second", 1))]}

\* the updates of the second row, and of the job id that has no row
OtherArgs ==
    {ClaimArgs(2, "transform"), FailedArgs(2, "transform", NoApiKey)}

\* the job ids the callers pass: caller j updates job j; the first row of
\* the excel store is given details of any length, the first row of the
\* other stores the updates of a run
StoreJobs == {1, 2}

\* the updates a caller makes once a terminal status was written
MaxUpdates == 3
CallArgs(j) ==
    IF j # 1 THEN OtherArgs
    ELSE IF rows[1].kind = "transform" THEN UpdateArgs
    ELSE RunArgs(rows[1].kind)

StoreInit ==
    /\ settings = [deepseek_api_key |-> TRUE]
    /\ rows \in {[j \in ids |-> NewRow(k)] : ids \in {{1}, {1, 2}}, k \in Kinds}
    /\ files = [j \in JobIds |-> NoFiles]
    /\ nextJob = 1
    /\ queue = [j \in JobIds |-> 0]
    /\ run = [r \in RunIds |-> IdleRun]
    /\ wlog = [r \in RunIds |-> NoWrites]
    /\ Unused("store")

\* update_*_job(db, job_id, ...): the row is updated and committed, or
\* there is no row and KeyError reaches the caller
update_job ==
    \E j \in StoreJobs : \E a \in CallArgs(j) :
        /\ wlog[j].terminals + wlog[j].after < MaxUpdates
        /\ IF RowExists(j)
           THEN /\ rows' = [rows EXCEPT ![j] = UpdatedRow(rows[j], a)]
                /\ wlog' = [wlog EXCEPT ![j] = Logged(wlog[j], a)]
                /\ UNCHANGED <<units, settings, files, nextJob, queue, run>>
           ELSE /\ run' = [run EXCEPT ![j].exc = Some(KeyError)]
                /\ UNCHANGED <<units, settings, rows, files, nextJob, queue, wlog>>

SpecStore == StoreInit /\ [][update_job]_vars

\* ---------------------------------------------------------------------
\* DeepSeekClient.chat_completions_stream taken on its own: the lines of
\* the response body, and the payloads the generator has yielded.
\* ---------------------------------------------------------------------

\* A line is its fragments; whitespace fragments are what str.strip removes.
Whitespace == {" ", "    ", "\t", "\r", "\n"}

RECURSIVE lstrip(_)
lstrip(t) == IF t # <<>> /\ Head(t) \in Whitespace THEN lstrip(Tail(t)) ELSE t

RECURSIVE rstrip(_)
rstrip(t) ==
    IF t # <<>> /\ t[Len(t)] \in Whitespace THEN rstrip(SubSeq(t, 1, Len(t) - 1)) ELSE t

strip(t) == rstrip(lstrip(t))

\* json.loads(data): the decoded value, None when it raises
json_loads(data) ==
    CASE data = <<"{\"choices\":[{\"delta\":{\"content\":\"a\"}}]}">> -> Some("delta a")
      [] data = <<"{\"choices\":", " ", "[{\"delta\":{\"content\":\"a\"}}]}">> -> Some("delta a")
      [] data = <<"{\"choices\":[{\"delta\":{\"content\":\"b\"}}]}">> -> Some("delta b")
      [] data = <<"7">> -> Some("number 7")
      [] OTHER -> None

\* lines a response body may hold
Lines ==
    {<<>>, <<" ">>,
     <<": keep-alive">>,
     <<"data:">>, <<"data:", " ">>,
     <<"data:", " ", "{\"choices\":[{\"delta\":{\"content\":\"a\"}}]}">>,
     <<"data:", "{\"choices\":", " ", "[{\"delta\":{\"content\":\"a\"}}]}", "\r">>,
     <<" ", "data:", " ", "{\"choices\":[{\"delta\":{\"content\":\"b\"}}]}", " ">>,
     <<"data:", "7">>,
     <<"data:", " ", "{\"choices\":[{\"del">>,
     <<"data:", " ", "[DONE]">>,
     <<"data:", "[DONE]", "\r">>}

MaxLines == 3

StreamInit ==
    /\ settings = [deepseek_api_key |-> TRUE]
    /\ NoJobs
    /\ Unused("stream")
    /\ sse \in {Some([lines |-> l, read |-> 0, yielded |-> <<>>, state |-> "open"]) :
                   l \in UNION {[1..n -> Lines] : n \in 0..MaxLines}}

Streaming == sse # None /\ sse[1].state = "open"

StreamStep(v) == /\ sse' = Some(v)
                 /\ UNCHANGED <<lifecycle, candidate, verdict, proc, llm_reply, pacer, request, dataset>>

\* StreamLine ending the stream at a payload that does not decode
StreamLine_StopOnMalformed ==
    /\ Streaming /\ sse[1].read < Len(sse[1].lines)
    /\ LET item == strip(sse[1].lines[sse[1].read + 1])
           data == IF item # <<>> /\ Head(item) = "data:" THEN strip(Tail(item)) ELSE <<>>
           next == [sse[1] EXCEPT !.read = sse[1].read + 1]
       IN  IF data = <<>> THEN StreamStep(next)
           ELSE IF data = <<"[DONE]">> \/ json_loads(data) = None
           THEN StreamStep([next EXCEPT !.state = "done"])
           ELSE StreamStep([next EXCEPT !.yielded = Append(sse[1].yielded, json_loads(data)[1])])

\* one turn of "async for line in resp.aiter_lines()"
StreamLine ==
    /\ Streaming /\ sse[1].read < Len(sse[1].lines)
    /\ LET line == sse[1].lines[sse[1].read + 1]
           item == strip(line)
           data == IF item # <<>> /\ Head(item) = "data:" THEN strip(Tail(item)) ELSE <<>>
           next == [sse[1] EXCEPT !.read = sse[1].read + 1]
       IN  IF item = <<>> THEN StreamStep(next)
           ELSE IF Head(item) # "data:" THEN StreamStep(next)
           ELSE IF data = <<"[DONE]">> THEN StreamStep([next EXCEPT !.state = "done"])
           ELSE IF data = <<>> THEN StreamStep(next)
           ELSE IF json_loads(data) = None THEN StreamStep(next)
           ELSE StreamStep([next EXCEPT !.yielded = Append(sse[1].yielded, json_loads(data)[1])])

\* the body has no more lines: the generator returns
StreamExhausted ==
    /\ Streaming /\ sse[1].read = Len(sse[1].lines)
    /\ StreamStep([sse[1] EXCEPT !.state = "exhausted"])

\* reading the next line fails (httpx.RequestError): RuntimeError
StreamRequestError ==
    /\ Streaming
    /\ StreamStep([sse[1] EXCEPT !.state = "error"])

NextStream == StreamLine \/ StreamExhausted \/ StreamRequestError

SpecStream == StreamInit /\ [][NextStream]_vars

\* ---------------------------------------------------------------------
\* Code extraction taken on its own: _extract_python_code of
\* analytics_codegen, and _extract_json with _sanitize_python_code of
\* excel_codegen.  A text is its tokens: "<fence>" (three backticks), a language tag,
\* "\n", "<backslash>" (one backslash), "{", "}", and lines of prose or code.
\* ---------------------------------------------------------------------

\* the lines of a text, split at "\n"
RECURSIVE splitlines(_)
splitlines(t) ==
    IF t = <<>> THEN <<>>
    ELSE LET N == {i \in DOMAIN t : t[i] = "\n"}
         IN IF N = {} THEN <<t>>
            ELSE LET n == CHOOSE i \in N : \A k \in N : i <= k
                 IN <<SubSeq(t, 1, n - 1)>> \o splitlines(SubSeq(t, n + 1, Len(t)))

\* "\n".join(lines)
RECURSIVE join(_)
join(lines) ==
    IF lines = <<>> THEN <<>>
    ELSE IF Len(lines) = 1 THEN lines[1]
    ELSE lines[1] \o <<"\n">> \o join(Tail(lines))

\* "def analyze" in text, "def transform" in text, "import" in text
HasDef(t, f) == \E i \in DOMAIN t : t[i] = "def " \o f \o "(a, b):"
HasImport(t) == \E i \in DOMAIN t : t[i] = "import pandas as pd"

\* A fence pattern "<fence>" tag "\\s*" "(.*?)" "\\s*" "<fence>" written in a raw
\* string: "\\s*" is a backslash followed by any number of the letter s (no
\* text here has an s after a backslash).  The group of the match that
\* starts at token i, None when no match starts there.
FenceAt(t, i, tags, tagOptional) ==
    LET k == IF i + 1 <= Len(t) /\ t[i + 1] \in tags THEN i + 2
             ELSE IF tagOptional THEN i + 1 ELSE 0
        J == {j \in DOMAIN t : /\ k # 0 /\ j > k /\ j + 1 <= Len(t)
                               /\ t[j] = "<backslash>" /\ t[j + 1] = "<fence>"}
    IN IF /\ t[i] = "<fence>" /\ k # 0 /\ k <= Len(t) /\ t[k] = "<backslash>" /\ J # {}
       THEN Some(SubSeq(t, k + 1, (CHOOSE j \in J : \A l \in J : j <= l) - 1))
       ELSE None

\* pattern.search(text): the group of the leftmost match, None without one
FenceSearch(t, tags, tagOptional) ==
    LET M == {i \in DOMAIN t : FenceAt(t, i, tags, tagOptional) # None}
    IN IF M = {} THEN None
       ELSE FenceAt(t, CHOOSE i \in M : \A k \in M : i <= k, tags, tagOptional)

Words == {"python", "Python", "json"}

\* analytics_codegen._PY_FENCE_RE (IGNORECASE) and _ANY_FENCE_RE
AnalyticsPyFence(t) == FenceSearch(t, {"python", "Python"}, FALSE)
AnyFence(t) == FenceSearch(t, Words, TRUE)
\* excel_codegen._PY_FENCE_RE
ExcelPyFence(t) == FenceSearch(t, {"python"}, TRUE)
\* excel_codegen._JSON_FENCE_RE: the group is a backslash, "{", ..., a
\* backslash, "}"
JsonFence(t) ==
    LET g == FenceSearch(t, {"json"}, TRUE)
    IN IF /\ g # None /\ Len(g[1]) >= 4 /\ g[1][1] = "<backslash>" /\ g[1][2] = "{"
          /\ \E j \in 3..(Len(g[1]) - 1) : g[1][j] = "<backslash>" /\ g[1][j + 1] = "}"
       THEN g ELSE None

\* the fence lines removed from a text that starts with a fence
Unfenced(text) ==
    LET lines == splitlines(text)
        l1 == IF lines # <<>> /\ lstrip(lines[1]) # <<>> /\ lstrip(lines[1])[1] = "<fence>"
              THEN Tail(lines) ELSE lines
        l2 == IF l1 # <<>> /\ strip(l1[Len(l1)]) = <<"<fence>">>
              THEN SubSeq(l1, 1, Len(l1) - 1) ELSE l1
    IN strip(join(l2))

\* analytics_codegen._sanitize_python_code
AnalyticsSanitize(code) ==
    IF strip(code) # <<>> /\ strip(code)[1] = "<fence>"
    THEN Unfenced(strip(code)) ELSE strip(code)

\* excel_codegen._sanitize_python_code
ExcelSanitize(code) ==
    LET text == strip(code)
        t1 == IF text # <<>> /\ text[1] = "<fence>"
              THEN IF ExcelPyFence(text) # None THEN strip(ExcelPyFence(text)[1])
                   ELSE Unfenced(text)
              ELSE text
        t2 == IF Len(t1) >= 2 /\ t1[1] \in {"python", "Python"} /\ t1[2] = "\n"
              THEN lstrip(SubSeq(t1, 3, Len(t1))) ELSE t1
    IN strip(t2)

\* what an extraction gives: the code, or the error it raises
Extracted(code, notes) == [ok |-> TRUE, code |-> code, notes |-> notes, error |-> ""]
Failed(error) == [ok |-> FALSE, code |-> <<>>, notes |-> "", error |-> error]

\* analytics_codegen._extract_python_code and the test of its caller
_extract_python_code(text) ==
    LET content == strip(text)
        found ==
            IF AnalyticsPyFence(content) # None
            THEN Extracted(AnalyticsSanitize(AnalyticsPyFence(content)[1]), "")
            ELSE IF AnyFence(content) # None /\ HasDef(AnyFence(content)[1], "analyze")
            THEN Extracted(AnalyticsSanitize(AnyFence(content)[1]),
                           "extracted from non-python fence")
            ELSE IF HasDef(content, "analyze")
            THEN Extracted(AnalyticsSanitize(content), "used raw content (non-fenced)")
            ELSE Failed("LLM did not return python code with analyze().")
    IN IF found.ok /\ found.code = <<>>
       THEN Failed("LLM returned empty python_code.") ELSE found

\* the JSON objects a reply may hold, as json.loads decodes them: the
\* python_code member, None when the text is not a JSON object
JsonCode(f) == <<"import pandas as pd", "\n", "def " \o f \o "(a, b):", "\n", "    ", "return df">>
JsonObjects ==
    {<<"{", "}">>, <<"{", "\"python_code\": \"<code>\"", "}">>}
json_object(t) ==
    IF t = <<"{", "}">> THEN Some(<<>>)
    ELSE IF t \in JsonObjects THEN Some(JsonCode("transform"))
    ELSE None

\* decoder.raw_decode(text[first_brace:]): the object at the start of the
\* text from its first "{", None when there is no "{" or decoding raises
raw_decode(t) ==
    LET B == {i \in DOMAIN t : t[i] = "{"}
        b == CHOOSE i \in B : \A k \in B : i <= k
        E == {j \in DOMAIN t : j > b /\ json_object(SubSeq(t, b, j)) # None}
    IN IF B = {} \/ E = {} THEN None
       ELSE json_object(SubSeq(t, b, CHOOSE j \in E : \A l \in E : j <= l))

\* excel_codegen._extract_json(content), then
\* _sanitize_python_code(data.get("python_code", "")) and the test of
\* generate_excel_code
_extract_json(content) ==
    LET text == strip(content)
        data ==
            IF text # <<>> /\ text[1] = "{" /\ text[Len(text)] = "}"
            THEN IF json_object(text) # None THEN Extracted(json_object(text)[1], "")
                 ELSE Failed("JSONDecodeError")
            ELSE IF JsonFence(text) # None THEN Failed("JSONDecodeError")
            ELSE IF raw_decode(text) # None THEN Extracted(raw_decode(text)[1], "")
            ELSE IF ExcelPyFence(text) # None
            THEN Extracted(ExcelSanitize(ExcelPyFence(text)[1]),
                           "extracted from code fence (non-JSON model output)")
            ELSE IF HasDef(text, "transform") /\ HasImport(text)
            THEN Extracted(ExcelSanitize(text),
                           "used raw content as python_code (non-JSON model output)")
            ELSE Failed("LLM did not return valid JSON.")
    IN IF data.ok /\ ExcelSanitize(data.code) = <<>>
       THEN Failed("LLM returned empty python_code.")
       ELSE IF data.ok THEN Extracted(ExcelSanitize(data.code), data.notes)
       ELSE data

\* code a model writes for the entry function f
Codes(f) ==
    {<<"import pandas as pd", "\n", "def " \o f \o "(a, b):", "\n", "    ", "return df">>,
     <<"import pandas as pd", "\n", "def " \o f \o "(a, b):", "\n", "    ", "return", " ", "{", "}">>,
     <<"def " \o f \o "(a, b):", "\n", "    ", "return", " ", "{", "\"rows\": len(df)", "}">>}

\* replies with one fenced block
Fenced(f) ==
    {before \o open \o code \o close \o after :
        before \in {<<>>, <<"Here is the code:", "\n">>},
        open \in {<<"<fence>", "python", "\n">>, <<"<fence>", "Python", "\n">>,
                  <<"<fence>", "\n">>, <<"<fence>", "python", "<backslash>">>},
        code \in Codes(f),
        close \in {<<"\n", "<fence>">>, <<"<backslash>", "<fence>">>},
        after \in {<<>>, <<"\n", "Hope this helps.">>}}

\* the replies of a model
Replies(f) ==
    Fenced(f) \cup Codes(f) \cup JsonObjects
              \cup {<<>>, <<"I cannot help with that.">>,
                    <<"<fence>", "python", "\n", "\n", "<fence>">>}

ExtractionInit ==
    /\ settings = [deepseek_api_key |-> TRUE]
    /\ NoJobs
    /\ Unused("extraction")
    /\ llm_reply \in {Some([entry |-> f, text |-> t, result |-> None]) :
                     f \in {"analyze"}, t \in Replies("analyze")}
                 \cup {Some([entry |-> f, text |-> t, result |-> None]) :
                     f \in {"transform"}, t \in Replies("transform")}

\* the reply is handed to the extraction of its flavor
Extract ==
    /\ llm_reply # None /\ llm_reply[1].result = None
    /\ llm_reply' = Some([llm_reply[1] EXCEPT !.result =
                        Some(IF llm_reply[1].entry = "analyze"
                             THEN _extract_python_code(llm_reply[1].text)
                             ELSE _extract_json(llm_reply[1].text))])
    /\ UNCHANGED <<lifecycle, candidate, verdict, proc, sse, pacer, request, dataset>>

SpecExtraction == ExtractionInit /\ [][Extract]_vars

(***************************************************************************)
(* A streaming generation on its own: generate_analytics_code_stream and   *)
(* generate_report_markdown_stream, reduced to the clock they read and     *)
(* the calls of on_update they make.  Time is time.monotonic() in tenths   *)
(* of a second.                                                            *)
(***************************************************************************)
MaxClock == 9       \* the latest reading of the clock
MaxEvents == 3      \* events of one stream

update_interval_seconds == 4

Generators == {"generate_analytics_code_stream", "generate_report_markdown_stream"}

\* one call of on_update: when it was made, the text it was given (the
\* deltas it is made of), whether it is the call after the loop
Update(at, parts, final) == [at |-> at, parts |-> parts, final |-> final]

\* an event of the stream: where it carries text, and the text
Event(carrier, content) == [carrier |-> carrier, content |-> content]
Events ==
    {Event("none", ""), Event("other", ""), Event("delta", ""), Event("delta", "a"),
     Event("delta", "b"), Event("message", "b")}

\* the text of an event: choices[0].delta.content, else
\* choices[0].message.content, when it is a string; "" otherwise
_extract_stream_delta(event) ==
    IF event.carrier \in {"delta", "message"} THEN event.content ELSE ""

PacerInit ==
    /\ pacer \in {Some([generator |-> g, clock |-> c, last_emit |-> 0, events |-> 0,
                        parts |-> <<>>, calls |-> <<>>, state |-> "streaming"]) :
                    g \in Generators, c \in 0..MaxClock}
    /\ settings = [deepseek_api_key |-> TRUE]
    /\ NoJobs
    /\ Unused("pacer")

Pacing == pacer # None /\ pacer[1].state = "streaming"

PacerStep(next) ==
    /\ pacer' = Some(next)
    /\ UNCHANGED <<lifecycle, candidate, verdict, proc, sse, llm_reply, request, dataset>>

\* time passes: while the loop waits for the next event, or inside an await
Tick ==
    /\ Pacing
    /\ pacer[1].clock < MaxClock
    /\ PacerStep([pacer[1] EXCEPT !.clock = @ + 1])

Due_Always(now, last_emit) == TRUE
Due(now, last_emit) == now - last_emit >= update_interval_seconds

\* one event of the stream: without text it is skipped, with text it is
\* appended and on_update is called when the interval has passed
StreamEvent ==
    /\ Pacing
    /\ pacer[1].events < MaxEvents
    /\ \E event \in Events :
          LET p == pacer[1]
              delta == _extract_stream_delta(event)
              now == p.clock
              read == [p EXCEPT !.events = @ + 1]
              appended == [read EXCEPT !.parts = Append(@, delta)]
          IN  IF delta = ""
              THEN PacerStep(read)
              ELSE IF Due(now, p.last_emit)
              THEN PacerStep([appended EXCEPT
                       !.last_emit = now,
                       !.calls = Append(@, Update(now, appended.parts, FALSE))])
              ELSE PacerStep(appended)

\* StreamEnds going to the extraction without the last call of on_update
StreamEnds_NoFlush ==
    /\ Pacing
    /\ \E found \in BOOLEAN :
          PacerStep([pacer[1] EXCEPT
              !.state = IF found /\ pacer[1].parts # <<>> THEN "returned" ELSE "no_payload"])

\* the stream is exhausted: on_update is called with the whole content,
\* then the payload is extracted from it, or none is found (never in an
\* empty content) and the generator raises
StreamEnds ==
    /\ Pacing
    /\ \E found \in BOOLEAN :
          PacerStep([pacer[1] EXCEPT
              !.calls = Append(@, Update(pacer[1].clock, pacer[1].parts, TRUE)),
              !.state = IF found /\ pacer[1].parts # <<>> THEN "returned" ELSE "no_payload"])

\* the stream raises: the error leaves the generator, nothing more is sent
StreamRaises ==
    /\ Pacing
    /\ PacerStep([pacer[1] EXCEPT !.state = "raised"])

NextPacer == Tick \/ StreamEvent \/ StreamEnds \/ StreamRaises

SpecPacer == PacerInit /\ [][NextPacer]_vars

(***************************************************************************)
(* extract_dataset_metadata on its own.  A data frame is its column labels *)
(* and its number of rows; the cell of row r under the c-th column is the  *)
(* pair <<r, c>>.  A column label of a CSV table is a string and pandas    *)
(* makes the labels of one table differ; a label read from a workbook      *)
(* keeps the type of the header cell, a number or a string.                *)
(***************************************************************************)
MaxCols == 3        \* columns of one table
MaxRows == 2        \* data rows of one table
MaxSheets == 10

ColumnLabel(type, text) == [type |-> type, text |-> text]
str(label) == label.text

\* the header rows: four strings; a string, the number 1, the string "1",
\* another string
Headers(suffix) ==
    {[i \in 1..(MaxCols + 1) |-> ColumnLabel("str", <<"a", "b", "c", "d", "e">>[i])]}
    \cup IF suffix \in {".csv", ".txt"} THEN {}
         ELSE {[i \in 1..(MaxCols + 1) |->
                   <<ColumnLabel("str", "a"), ColumnLabel("int", "1"),
                     ColumnLabel("str", "1"), ColumnLabel("str", "b"),
                     ColumnLabel("str", "c")>>[i]]}

Tables(suffix) ==
    {[columns |-> SubSeq(h, 1, c), rows |-> r] :
        h \in Headers(suffix), c \in 0..MaxCols, r \in 0..MaxRows}

Suffixes == {".csv", ".txt", ".xlsx", ".md"}

\* the files: one table, or a workbook whose sheets at odd positions are
\* one table and whose sheets at even positions are another
DatasetFiles ==
    {[suffix |-> x, sheets |-> <<t>>] : x \in {".csv", ".txt", ".md"}, t \in Tables(".csv")}
    \cup {[suffix |-> ".xlsx", sheets |-> [i \in 1..n |-> IF i % 2 = 1 THEN odd ELSE even]] :
            n \in {0, 1, 2, MaxSheets, MaxSheets + 1},
            odd \in Tables(".xlsx"), even \in Tables(".xlsx")}

\* pd.read_csv / pd.read_excel with nrows
read(table, nrows) == [table EXCEPT !.rows = IF @ < nrows THEN @ ELSE nrows]

\* df.iloc[:, :n]
iloc(df, n) == [df EXCEPT !.columns = SubSeq(@, 1, IF n < Len(@) THEN n ELSE Len(@))]

\* d[key] = value on a dict kept as the sequence of its items
SetItem(d, key, value) ==
    IF \E i \in DOMAIN d : d[i].key = key
    THEN [i \in DOMAIN d |-> IF d[i].key = key THEN [key |-> key, value |-> value] ELSE d[i]]
    ELSE Append(d, [key |-> key, value |-> value])

\* one record of df.to_dict(orient="records") put through
\* _truncate_sample_rows: the items of the row under the keys str(k)
RECURSIVE SampleRow(_, _, _)
SampleRow(df, r, c) ==
    IF c = 0 THEN <<>>
    ELSE SetItem(SampleRow(df, r, c - 1), str(df.columns[c]), <<r, c>>)

_truncate_sample_rows(df, n) == [r \in 1..n |-> SampleRow(df, r, Len(df.columns))]

Described(name, table, sample_rows, max_columns) ==
    LET df == read(table, sample_rows)
        columns_all == [i \in DOMAIN df.columns |-> str(df.columns[i])]
        truncated_columns == Len(columns_all) > max_columns
        df_preview == IF truncated_columns THEN iloc(df, max_columns) ELSE df
    IN  [name |-> name,
         shape |-> <<df.rows, Len(df.columns)>>,
         columns_all |-> columns_all,
         preview_columns |-> [i \in DOMAIN df_preview.columns |-> str(df_preview.columns[i])],
         truncated_columns |-> truncated_columns,
         sample_rows |-> _truncate_sample_rows(df_preview,
                             IF sample_rows < df_preview.rows THEN sample_rows
                             ELSE df_preview.rows)]

extract_dataset_metadata(file, sample_rows, max_columns) ==
    IF file.suffix \in {".csv", ".txt"}
    THEN [ok |-> TRUE, kind |-> "csv",
          sheets |-> <<Described(0, file.sheets[1], sample_rows, max_columns)>>]
    ELSE IF file.suffix = ".xlsx"
    THEN [ok |-> TRUE, kind |-> "xlsx",
          sheets |-> [i \in 1..(IF Len(file.sheets) < MaxSheets THEN Len(file.sheets)
                                ELSE MaxSheets) |->
                         Described(i, file.sheets[i], sample_rows, max_columns)]]
    ELSE [ok |-> FALSE, kind |-> "ValueError", sheets |-> <<>>]

MetadataInit ==
    /\ dataset \in {Some([file |-> f, sample_rows |-> n, max_columns |-> m,
                          metadata |-> None]) :
                      f \in DatasetFiles, n \in 1..MaxRows, m \in 1..MaxCols}
    /\ settings = [deepseek_api_key |-> TRUE]
    /\ NoJobs
    /\ Unused("metadata")

ExtractMetadata ==
    /\ dataset # None /\ dataset[1].metadata = None
    /\ dataset' = Some([dataset[1] EXCEPT !.metadata =
                      Some(extract_dataset_metadata(dataset[1].file, dataset[1].sample_rows,
                                                    dataset[1].max_columns))])
    /\ UNCHANGED <<lifecycle, candidate, verdict, proc, sse, llm_reply, pacer, request>>

SpecMetadata == MetadataInit /\ [][ExtractMetadata]_vars

(***************************************************************************)
(* The create-job endpoints on their own: create_excel_job,                *)
(* create_analytics_job and create_report_job with the uploads they are    *)
(* given.  A filename is the sequence of its parts between dots; None is   *)
(* the empty sequence.  A job id that uuid4() hands out is the next        *)
(* number.                                                                 *)
(***************************************************************************)
MaxCreates == 2     \* requests that reach uuid4()
max_bytes == 52428800    \* max_upload_mb = 50, in bytes

FileNames ==
    {<<>>, <<"">>, <<"data", "csv">>, <<"BOOK", "XLSX">>, <<"notes", "md">>,
     <<"archive", "zip">>, <<"", "xlsx">>, <<"noext">>}

FileSizes == {max_bytes, max_bytes + 1}

Upload(filename, size) == [filename |-> filename, size |-> size]
Uploads == {Upload(n, z) : n \in FileNames, z \in FileSizes}

\* the uploads of a request: one file, or the list `files` of a report
RequestUploads(kind) ==
    IF kind = "report"
    THEN {<<>>} \cup {<<u>> : u \in Uploads}
         \cup {<<u, v>> : u \in Uploads,
                          v \in {Upload(<<"data", "csv">>, max_bytes),
                                 Upload(<<"data", "csv">>, max_bytes + 1),
                                 Upload(<<"archive", "zip">>, max_bytes)}}
    ELSE {<<u>> : u \in Uploads}

\* str.lower() of a part
lower(part) ==
    CASE part = "BOOK" -> "book"
      [] part = "XLSX" -> "xlsx"
      [] OTHER -> part

\* Path(filename).suffix.lower(), without its dot: the part after the last
\* dot when something stands before that dot and after it
suffix(filename) ==
    IF /\ Len(filename) >= 2
       /\ filename[Len(filename)] # ""
       /\ (Len(filename) > 2 \/ filename[1] # "")
    THEN lower(filename[Len(filename)])
    ELSE ""

\* filename.lower().endswith("." + ext)
endswith(filename, ext) ==
    Len(filename) >= 2 /\ lower(filename[Len(filename)]) = ext

\* `not file.filename`
Falsy(filename) == filename = <<>> \/ filename = <<"">>

_allowed_ext_Any(kind, filename) == TRUE
_allowed_ext(kind, filename) ==
    CASE kind = "transform" -> endswith(filename, "xlsx")
      [] kind = "analytics" -> suffix(filename) \in {"csv", "txt", "xlsx"}
      [] kind = "report" -> suffix(filename) \in {"csv", "txt", "md", "xlsx"}

Answer(kind, uploads, status, detail) ==
    Some([kind |-> kind, uploads |-> uploads, status |-> status, detail |-> detail])

CreateInit ==
    /\ settings = [deepseek_api_key |-> TRUE]
    /\ NoJobs
    /\ Unused("create")
    /\ request = None

\* the checks made before anything is written
Refused(kind, uploads) ==
    IF uploads = <<>> THEN Some("Missing files")
    ELSE LET bad == {i \in DOMAIN uploads :
                        Falsy(uploads[i].filename) \/ ~_allowed_ext(kind, uploads[i].filename)}
             first == CHOOSE i \in bad : \A k \in bad : i <= k
         IN  IF bad = {} THEN None
             ELSE IF Falsy(uploads[first].filename) THEN Some("Missing filename")
             ELSE Some(CASE kind = "transform" -> "Only .xlsx supported for now"
                         [] kind = "analytics" -> "Only .csv/.txt/.xlsx supported"
                         [] kind = "report" -> "Only .csv/.xlsx/.txt/.md supported")

create_job ==
    \E kind \in Kinds : \E uploads \in RequestUploads(kind) :
        LET job_id == nextJob + 1
            unchanged == UNCHANGED <<candidate, verdict, proc, sse, llm_reply, pacer, dataset,
                                     settings, run, wlog>>
        IN  IF Refused(kind, uploads) # None
            THEN /\ request' = Answer(kind, uploads, "400", Refused(kind, uploads)[1])
                 /\ UNCHANGED <<rows, files, nextJob, queue>>
                 /\ unchanged
            ELSE /\ nextJob < MaxCreates
                 /\ nextJob' = job_id
                 /\ files' = [files EXCEPT ![job_id] = Uploaded]
                 /\ unchanged
                 /\ IF \E i \in DOMAIN uploads : uploads[i].size > max_bytes
                    THEN /\ request' = Answer(kind, uploads, "413", "File too large")
                         /\ UNCHANGED <<rows, queue>>
                    ELSE /\ request' = Answer(kind, uploads, "200", "")
                         /\ rows' = [j \in (DOMAIN rows) \cup {job_id} |->
                                        IF j = job_id THEN NewRow(kind) ELSE rows[j]]
                         /\ queue' = [queue EXCEPT ![job_id] = @ + 1]

SpecCreate == CreateInit /\ [][create_job]_vars

(***************************************************************************)
(* Properties.                                                             *)
(***************************************************************************)
Rank(status) ==
    CASE status = "queued" -> 0
      [] status = "running" -> 1
      [] OTHER -> 2

Started(r) == run[r].pc \notin {"idle", "returned"}
Ended(r) == run[r].pc \in {"done", "escaped"}
LastWrite(r) == wlog[r].last[1]
LastError(r) == wlog[r].last[1].error[1]

\* C1: the status of a row only moves forward, queued -> running ->
\* (succeeded | failed), and once a row is succeeded or failed no later
\* step changes any field of it.
C1_StatusOnlyForward ==
    [][\A j \in DOMAIN rows : j \in DOMAIN rows' =>
          /\ Rank(rows'[j].status) >= Rank(rows[j].status)
          /\ Rank(rows[j].status) = 2 => rows'[j] = rows[j]]_vars

\* C2: a single run of a queued job writes status=running with started_at
\* first; status is written again only by a terminal update, which carries
\* finished_at; there is at most one terminal update and nothing is written
\* after it; while the row exists the run ends with exactly one.
C2_ClaimThenOneTerminal ==
    \A r \in RunIds : Started(r) =>
        /\ wlog[r].first # None
        /\ wlog[r].first[1].status = Some("running")
        /\ wlog[r].first[1].started_at # None
        /\ wlog[r].terminals <= 1
        /\ wlog[r].after = 0
        /\ (wlog[r].terminals = 1) <=> (run[r].pc = "done")
        /\ (run[r].pc = "done") => /\ IsTerminal(LastWrite(r))
                                    /\ LastWrite(r).finished_at # None
        /\ (run[r].pc # "done" /\ LastWrite(r).status # None) =>
               wlog[r].last = wlog[r].first
        /\ RowExists(run[r].job) => run[r].pc # "escaped"

C2_Witness ==
    \E r \in RunIds :
        /\ run[r].pc = "done" /\ RowExists(run[r].job)
        /\ LastWrite(r).status = Some("succeeded")
        /\ rows[run[r].job].status = "succeeded"

\* C3: a run has started a sandbox child only if validate_generated_code
\* accepted the generated code in that run, and a run whose validation
\* raised has started none.
C3_LaunchOnlyAfterValidation ==
    \A r \in RunIds :
        /\ run[r].launched =>
              /\ run[r].kind \in {"transform", "analytics"}
              /\ run[r].validated # None
              /\ validate_generated_code(run[r].validated[1],
                                         RequiredFunction(run[r].kind)) = None
        /\ run[r].failed_at = "validation" => ~run[r].launched

C3_Witness ==
    \E r \in RunIds :
        /\ run[r].pc = "wait" /\ run[r].launched
        /\ run[r].validated = run[r].child

TimedOutFirst(rec) ==
    rec.first_error # None /\ is_timeout(StrOrRepr(rec.first_error[1]))

C5_EveryFailureRecorded ==
    \A r \in RunIds :
        /\ run[r].pc # "escaped"
        /\ (run[r].failed_at # "none" /\ Ended(r)) =>
               /\ LastWrite(r).status = Some("failed")
               /\ LastWrite(r).finished_at # None
               /\ LastWrite(r).error # None

\* C6: from one update of a run to the next the persisted progress never
\* decreases.
C6_ProgressNeverDecreases ==
    [][\A r \in RunIds :
          (wlog[r].progress # None /\ wlog'[r].progress # None) =>
              wlog'[r].progress[1] >= wlog[r].progress[1]]_vars

\* C7: the progress of a row is 1.0 exactly when its status is succeeded.
C7_FullProgressIffSucceeded ==
    \A j \in DOMAIN rows :
        (rows[j].progress = Some(100)) <=> (rows[j].status = "succeeded")

\* C8: a run that failed at validation records the error "ValidationError: "
\* followed by the validator's message for the code it had written, which
\* names the offending module; a run that failed at the model call, the
\* extraction or the sandbox records an error without that prefix.
C8_ValidationErrorTagged ==
    \A r \in RunIds : run[r].pc = "done" =>
        /\ run[r].failed_at = "validation" =>
              /\ LastWrite(r).status = Some("failed")
              /\ StartsWith(LastError(r), "ValidationError: ")
              /\ files[run[r].job].code # None =>
                    LET v == validate_generated_code(files[run[r].job].code[1],
                                                     RequiredFunction(run[r].kind))
                    IN /\ v # None
                       /\ LastError(r) = <<"ValidationError: ">> \o v[1]
        /\ run[r].failed_at \in {"model", "extraction", "sandbox"} =>
              /\ LastWrite(r).status = Some("failed")
              /\ ~StartsWith(LastError(r), "ValidationError: ")

C8_Witness ==
    \E r \in RunIds :
        /\ run[r].pc = "done" /\ run[r].failed_at = "validation"
        /\ files[run[r].job].code = Some(SubprocessCode(RequiredFunction(run[r].kind)))
        /\ RowExists(run[r].job)
        /\ rows[run[r].job].status = "failed"
        /\ StartsWith(rows[run[r].job].error[1], "ValidationError: ")
        /\ Contains(rows[run[r].job].error[1], "subprocess")

SummarizeFailures == {"model_error", "timeout", "unparseable", "update_failed"}

C10_SandboxTimeoutFails ==
    \A r \in RunIds : run[r].sandbox = "timeout" =>
        /\ ~run[r].read_artifact
        /\ run[r].analysis = None
        /\ run[r].failed_at = "sandbox"
        /\ Ended(r)
        /\ LastWrite(r).status # Some("succeeded")
        /\ (run[r].pc = "done") =>
              /\ LastWrite(r).status = Some("failed")
              /\ Contains(Lower(LastError(r)), "timed out")
              /\ LastWrite(r).summary = None
        /\ RowExists(run[r].job) => rows[run[r].job].summary = None

C10_Witness ==
    \E r \in RunIds :
        /\ run[r].sandbox = "timeout" /\ run[r].pc = "done"
        /\ files[run[r].job].artifact = "partial"
        /\ RowExists(run[r].job)
        /\ rows[run[r].job].status = "failed"

\* C11: a run of a sandboxed flavor whose child exited with a non-zero
\* code, or with code 0 while the result artifact is absent, never writes
\* succeeded, and its terminal update is failed.
C11_NoArtifactNoSuccess ==
    \A r \in RunIds :
        run[r].sandbox \in {"nonzero", "exit0_no_artifact"} =>
            /\ LastWrite(r).status # Some("succeeded")
            /\ run[r].pc \notin {"x_succeed", "a_final"}
            /\ (run[r].pc = "done") => LastWrite(r).status = Some("failed")

\* C12: an analytics run whose first codegen call failed with a timeout
\* and which went on to parse the result artifact has made exactly two
\* codegen calls, records no failure, and ends with a succeeded update; the
\* row, while it exists, ends succeeded.
C12_RetryThenSuccess ==
    \A r \in RunIds :
        (/\ run[r].kind = "analytics" /\ TimedOutFirst(run[r])
         /\ run[r].read_artifact /\ run[r].failed_at # "ingest") =>
            /\ run[r].calls = 2
            /\ LastWrite(r).status # Some("failed")
            /\ (run[r].pc = "done") => LastWrite(r).status = Some("succeeded")
            /\ (Ended(r) /\ RowExists(run[r].job)) =>
                   /\ run[r].pc = "done"
                   /\ rows[run[r].job].status = "succeeded"

C12_Witness ==
    \E r \in RunIds :
        /\ run[r].kind = "analytics" /\ TimedOutFirst(run[r])
        /\ run[r].calls = 2 /\ run[r].pc = "done" /\ run[r].failed_at = "none"
        /\ RowExists(run[r].job) /\ rows[run[r].job].status = "succeeded"

\* C13: run(job_id) invoked on a job that has already been claimed (its
\* status is running, succeeded or failed) returns without writing the row.
C13_RerunIsNoOp ==
    [][\A r \in RunIds :
          (/\ run[r].pc = "idle" /\ run'[r].pc # "idle"
           /\ run'[r].job \in DOMAIN rows
           /\ rows[run'[r].job].status # "queued") =>
              /\ rows' = rows
              /\ run'[r].pc = "returned"]_vars

\* C14: a timestamp of a row (created_at, started_at, finished_at) that is
\* set is never overwritten by a later update.
C14_TimestampsWrittenOnce ==
    [][\A j \in DOMAIN rows : j \in DOMAIN rows' =>
          /\ rows[j].created_at # None => rows'[j].created_at = rows[j].created_at
          /\ rows[j].started_at # None => rows'[j].started_at = rows[j].started_at
          /\ rows[j].finished_at # None => rows'[j].finished_at = rows[j].finished_at]_vars

\* C15: the summary of a row is set only if its status is succeeded, and
\* its error only if its status is failed.
C15_PayloadMatchesStatus ==
    \A j \in DOMAIN rows :
        /\ rows[j].summary # None => rows[j].status = "succeeded"
        /\ rows[j].error # None => rows[j].status = "failed"

\* C16: a step of a run only writes the row of its own job and files of
\* its own job's work directory (and only its own digest of writes).
C16_RunWritesOwnJobOnly ==
    [][\A r \in RunIds : run'[r] # run[r] =>
          /\ \A j \in JobIds : j # run'[r].job =>
                /\ files'[j] = files[j]
                /\ j \in DOMAIN rows => (j \in DOMAIN rows' /\ rows'[j] = rows[j])
          /\ DOMAIN rows' = DOMAIN rows
          /\ \A q \in RunIds : q # r => wlog'[q] = wlog[q]]_vars

C16_Witness ==
    \E r, q \in RunIds :
        /\ run[r].job # run[q].job
        /\ run[r].pc = "wait" /\ run[q].pc = "wait"
        /\ files[run[r].job].code # None /\ files[run[q].job].code # None
        /\ RowExists(run[r].job) /\ RowExists(run[q].job)

\* What the rules say about the candidate that has been judged.
Judged == candidate # None /\ verdict # None
Walked == Parsed(candidate[1]).nodes
Raised == verdict[1].raised
Allowlist ==
    {"pandas", "numpy", "openpyxl", "matplotlib", "math", "re", "datetime",
     "typing", "collections"}

\* the top-level modules outside the allowlist that an import node names
OffendingModules(n) ==
    IF n.t = "Import"
    THEN {n.names[k][1] : k \in DOMAIN n.names} \ Allowlist
    ELSE IF n.t = "ImportFrom" /\ n.names[1] # <<>>
    THEN {n.names[1][1]} \ Allowlist
    ELSE {}

\* a call of a banned builtin, or an attribute of a banned module
OtherViolation(n) ==
    \/ n.t = "Call" /\ n.names[1] # <<>>
                    /\ n.names[1][1] \in {"eval", "exec", "__import__", "compile",
                                          "open", "input", "globals", "locals"}
    \/ n.t = "Attribute" /\ n.names[1][1] \in {"os", "sys", "subprocess", "socket"}

DefinesRequired ==
    \E i \in DOMAIN Walked :
        /\ Walked[i].t = "FunctionDef"
        /\ Walked[i].names[1][1] = candidate[1].required_function

MissingMessage ==
    <<"Missing required function: ", candidate[1].required_function, "()">>

\* C17: a candidate that parses and has no function definition with the
\* required name is rejected, and when it violates no other rule the error
\* says that the required function is missing.
C17_MissingEntryRejected ==
    (Judged /\ candidate[1].ok /\ ~DefinesRequired) =>
        /\ Raised # None
        /\ (\A i \in DOMAIN Walked :
                OffendingModules(Walked[i]) = {} /\ ~OtherViolation(Walked[i])) =>
               Raised = Some(MissingMessage)

C17_Witness ==
    /\ Judged
    /\ candidate[1].body = <<Def("helper", "top", <<>>)>>
    /\ Raised = Some(MissingMessage)

\* C18 as stated: a candidate with an import whose top-level module is
\* outside the allowlist is rejected with an error that names that module,
\* and a candidate whose imports are all allowlisted is not rejected for an
\* import.
C18_ErrorNamesEveryModule ==
    (Judged /\ candidate[1].ok) =>
        /\ \A i \in DOMAIN Walked : \A m \in OffendingModules(Walked[i]) :
              Raised # None /\ Contains(Raised[1], m)
        /\ (\A i \in DOMAIN Walked : OffendingModules(Walked[i]) = {}) =>
              (Raised = None \/ ~StartsWith(Raised[1], "Disallowed import: "))

\* the first node in walk order that violates a rule, 0 when there is none
FirstViolation ==
    LET V == {i \in DOMAIN Walked :
                OffendingModules(Walked[i]) # {} \/ OtherViolation(Walked[i])}
    IN IF V = {} THEN 0 ELSE CHOOSE i \in V : \A k \in V : i <= k

\* the first alias of an import node whose top-level module is not allowed
FirstOffending(n) ==
    LET A == {k \in DOMAIN n.names : n.names[k] # <<>> /\ n.names[k][1] \notin Allowlist}
    IN n.names[CHOOSE k \in A : \A l \in A : k <= l]

\* C18, amended: a candidate with an import, at any depth, whose top-level
\* module is outside the allowlist is rejected; the error is that of the
\* first violation in ast.walk order, and when that is an import it is
\* "Disallowed import: " with the dotted name of the first offending module
\* of that statement; a candidate whose imports are all allowlisted is not
\* rejected for an import.
C18_ErrorNamesFirstModule ==
    (Judged /\ candidate[1].ok) =>
        /\ (\E i \in DOMAIN Walked : OffendingModules(Walked[i]) # {}) => Raised # None
        /\ (FirstViolation # 0 /\ OffendingModules(Walked[FirstViolation]) # {}) =>
              /\ Raised # None
              /\ Raised[1] = <<"Disallowed import: ">>
                                \o Dotted(FirstOffending(Walked[FirstViolation]))
              /\ Raised[1][2] \in OffendingModules(Walked[FirstViolation])
        /\ (\A i \in DOMAIN Walked : OffendingModules(Walked[i]) = {}) =>
              (Raised = None \/ ~StartsWith(Raised[1], "Disallowed import: "))

C18_Witness ==
    /\ Judged
    /\ candidate[1].body =
          <<Def(candidate[1].required_function, "top",
                <<Leaf(Import(<<<<"subprocess">>>>))>>)>>
    /\ Raised = Some(<<"Disallowed import: ", "subprocess">>)

\* The child process has ended by itself (it was not killed).
Exited == proc # None /\ Child.exit # None /\ Child.exit # Some(-9)

\* C19: the child's exit code is 2 exactly when it was not given five
\* positional parameters, 3 exactly when the loaded module has no callable
\* entry function, 0 only after the entry function returned and the result
\* artifact was written, and the artifact is written once per child run.
C19_ExitCodeContract ==
    /\ Exited =>
          /\ Child.exit = Some(2) <=> Child.argc # 5
          /\ Child.exit = Some(3) <=> (Child.loaded /\ Child.script.defines # "function")
          /\ Child.exit = Some(0) => (Child.returned /\ Child.writes = 1)
    /\ proc # None => Child.writes <= 1

\* the mapping the result artifact is to hold for the returned value
Expected ==
    IF Child.script.ret.py = "dict"
    THEN Child.script.ret
    ELSE Py("dict", "", <<Py("pair", "", <<Py("str", "summary", <<>>), Child.script.ret>>)>>)

TopLevelDefines ==
    \E i \in DOMAIN candidate[1].body :
        /\ candidate[1].body[i].node.t = "FunctionDef"
        /\ candidate[1].body[i].node.names[1][1] = candidate[1].required_function

NoOtherRuleBroken ==
    \A i \in DOMAIN Walked :
        OffendingModules(Walked[i]) = {} /\ ~OtherViolation(Walked[i])

\* C29: a candidate is accepted only when a function definition with the
\* required name is a top-level statement of the module; a candidate whose
\* only definition of that name is nested in a function or a class (and that
\* breaks no other rule) is rejected as missing the required function.
C29_EntryAtTopLevel ==
    (Judged /\ candidate[1].ok) =>
        /\ Raised = None => TopLevelDefines
        /\ (DefinesRequired /\ ~TopLevelDefines /\ NoOtherRuleBroken) =>
              Raised = Some(MissingMessage)

\* the rule a rejection names is one the candidate breaks
NamedRuleBroken ==
    CASE Raised[1][1] = "SyntaxError: " -> ~candidate[1].ok
      [] Raised[1][1] = "Disallowed import: " ->
            \E i \in DOMAIN Walked : Raised[1][2] \in OffendingModules(Walked[i])
      [] Raised[1][1] = "Disallowed builtin call: " ->
            \E i \in DOMAIN Walked :
                /\ OtherViolation(Walked[i]) /\ Walked[i].t = "Call"
                /\ Raised[1] = <<"Disallowed builtin call: ", Walked[i].names[1][1], "()">>
      [] Raised[1][1] = "Disallowed module usage: " ->
            \E i \in DOMAIN Walked :
                /\ OtherViolation(Walked[i]) /\ Walked[i].t = "Attribute"
                /\ Raised[1] = <<"Disallowed module usage: ", Walked[i].names[1][1],
                                 ".", Walked[i].attr>>
      [] Raised[1][1] = "Missing required function: " ->
            Raised[1] = MissingMessage /\ ~DefinesRequired
      [] OTHER -> FALSE

\* C30: a candidate that anywhere in its tree calls eval, exec, __import__,
\* compile, open, input, globals or locals by name, or takes an attribute of
\* the name os, sys, subprocess or socket, is rejected; every rejection names
\* one rule that the candidate breaks; a candidate is accepted only if it
\* parses and breaks none of the rules (imports, calls, attributes, a
\* definition of the entry function).
C30_RejectsBannedUseNamesRule ==
    Judged =>
        /\ (candidate[1].ok /\ \E i \in DOMAIN Walked : OtherViolation(Walked[i])) =>
              Raised # None
        /\ Raised # None => NamedRuleBroken
        /\ Raised = None =>
              (candidate[1].ok /\ NoOtherRuleBroken /\ DefinesRequired)

C30_Witness ==
    /\ Judged
    /\ candidate[1].body = <<ClassDef("Tool", <<Expr(Call("exec"))>>)>>
    /\ Raised = Some(<<"Disallowed builtin call: ", "exec", "()">>)

\* the payload of a data line, None for a line that is not a data line
Payload(line) ==
    IF strip(line) # <<>> /\ strip(line)[1] = "data:"
    THEN Some(strip(Tail(strip(line))))
    ELSE None

DoneLine(line) == Payload(line) = Some(<<"[DONE]">>)

\* the index of the first [DONE] line, or one past the last line
FirstDone ==
    LET D == {i \in DOMAIN sse[1].lines : DoneLine(sse[1].lines[i])}
    IN IF D = {} THEN Len(sse[1].lines) + 1 ELSE CHOOSE i \in D : \A k \in D : i <= k

\* a data line with a payload that is not empty and decodes
Decodable(line) ==
    /\ Payload(line) # None /\ Payload(line) # Some(<<>>)
    /\ json_loads(Payload(line)[1]) # None

\* the decoded payloads of the decodable lines among the first n lines that
\* come before the first [DONE] line, in order
RECURSIVE Decoded(_)
Decoded(n) ==
    IF n = 0 THEN <<>>
    ELSE IF n < FirstDone /\ Decodable(sse[1].lines[n])
    THEN Append(Decoded(n - 1), json_loads(Payload(sse[1].lines[n])[1])[1])
    ELSE Decoded(n - 1)

\* C21: chat_completions_stream yields, in order, exactly the decoded
\* payloads of the data lines with a non-empty decodable payload that come
\* before the first [DONE] line; blank lines, other lines and malformed
\* payloads do not end the stream, and nothing after [DONE] is yielded.
C21_YieldsDecodedDataLines ==
    sse # None =>
        /\ sse[1].yielded = Decoded(sse[1].read)
        /\ sse[1].state = "done" =>
              (sse[1].read = FirstDone /\ sse[1].yielded = Decoded(Len(sse[1].lines)))
        /\ sse[1].state = "exhausted" =>
              /\ sse[1].read = Len(sse[1].lines) /\ FirstDone > Len(sse[1].lines)
              /\ sse[1].yielded = Decoded(Len(sse[1].lines))
        /\ sse[1].state = "open" => sse[1].read < FirstDone

C21_Witness ==
    /\ sse # None /\ sse[1].state = "done"
    /\ sse[1].lines = <<<<"data:", " ", "{\"choices\":[{\"del">>,
                        <<"data:", "{\"choices\":", " ", "[{\"delta\":{\"content\":\"a\"}}]}", "\r">>,
                        <<"data:", " ", "[DONE]">>>>
    /\ sse[1].yielded = <<"delta a">>

\* a reply that is a fenced python block around the code, with prose before
\* and after it
FencedPython(before, code, after) ==
    before \o <<"<fence>", "python", "\n">> \o code \o <<"\n", "<fence>">> \o after

\* C22: for a reply that holds a fenced python block defining the entry
\* function, with or without prose before or after the block, the
\* extraction returns exactly the inner text of the block.
C22_ExtractionReturnsInnerText ==
    (llm_reply # None /\ llm_reply[1].result # None) =>
        \A before \in {<<>>, <<"Here is the code:", "\n">>},
           code \in Codes(llm_reply[1].entry),
           after \in {<<>>, <<"\n", "Hope this helps.">>} :
            llm_reply[1].text = FencedPython(before, code, after) =>
                /\ llm_reply[1].result[1].ok
                /\ llm_reply[1].result[1].code = code

\* C23: the stored detail of a job is never longer than 8000 characters;
\* an update that supplies a longer string stores its last 8000 characters,
\* and a detail write leaves nothing of the previous detail.
C23_DetailBounded ==
    /\ \A j \in DOMAIN rows :
          rows[j].detail # None => rows[j].detail[1].len <= 8000
    /\ \A j \in DOMAIN rows :
          (wlog[j].last # None /\ wlog[j].last[1].detail # None) =>
              LET t == wlog[j].last[1].detail[1]
              IN rows[j].detail =
                    Some(IF t.len > 8000
                         THEN [src |-> t.src, from |-> t.from + (t.len - 8000), len |-> 8000]
                         ELSE t)

C23_Witness ==
    /\ wlog[1].first # None /\ wlog[1].first[1].detail = Some(Text("first", 8001))
    /\ wlog[1].last[1].detail = Some(Text("second", 12000))
    /\ rows[1].detail = Some([src |-> "second", from |-> 4000, len |-> 8000])

\* the calls of on_update that are at least the interval after the call
\* before them, among the calls that satisfy `which`
Spaced(which(_)) ==
    pacer # None =>
        \A i \in 2..Len(pacer[1].calls) :
            which(pacer[1].calls[i]) =>
                pacer[1].calls[i].at - pacer[1].calls[i - 1].at >= update_interval_seconds

AnyCall(c) == TRUE
InLoop(c) == ~c.final

\* C24 (as stated): during one streaming generation any two consecutive
\* calls of on_update, the final one made when the stream ends included,
\* are at least update_interval_seconds apart.
C24_UpdatesSpaced == Spaced(AnyCall)

\* C24 (amended): any two consecutive calls of on_update made while the
\* stream is being read are at least update_interval_seconds apart; the
\* call made when the stream ends is made whatever the time since the
\* call before it, and carries every delta.
C24_InStreamUpdatesSpaced ==
    /\ Spaced(InLoop)
    /\ pacer # None =>
          /\ pacer[1].state = "returned" =>
                /\ pacer[1].calls # <<>>
                /\ pacer[1].calls[Len(pacer[1].calls)] =
                       Update(pacer[1].calls[Len(pacer[1].calls)].at, pacer[1].parts, TRUE)
          /\ \A i \in DOMAIN pacer[1].calls :
                pacer[1].calls[i].final => i = Len(pacer[1].calls)

\* two calls while the stream is read, then the final call less than the
\* interval after the second
C24_Witness ==
    /\ pacer # None
    /\ Len(pacer[1].calls) = 3
    /\ pacer[1].calls[3].final
    /\ pacer[1].calls[3].at - pacer[1].calls[2].at < update_interval_seconds

\* the tables of the file that the metadata describes, each with its
\* description
DescribedSheets ==
    IF dataset # None /\ dataset[1].metadata # None /\ dataset[1].metadata[1].ok
    THEN {<<dataset[1].file.sheets[i], dataset[1].metadata[1].sheets[i]>> :
            i \in DOMAIN dataset[1].metadata[1].sheets}
    ELSE {}

FirstColumns(table) ==
    LET k == IF Len(table.columns) < dataset[1].max_columns THEN Len(table.columns)
             ELSE dataset[1].max_columns
    IN  [j \in 1..k |-> str(table.columns[j])]

\* the flag, the preview columns, the number of sample rows and sheets
TruncationAndCaps ==
    /\ \A d \in DescribedSheets :
          /\ d[2].truncated_columns = (Len(d[1].columns) > dataset[1].max_columns)
          /\ d[2].preview_columns = FirstColumns(d[1])
          /\ Len(d[2].sample_rows) <= dataset[1].sample_rows
    /\ dataset # None /\ dataset[1].metadata # None =>
          Len(dataset[1].metadata[1].sheets) <= MaxSheets

\* the keys of every sample row are the preview columns, in their order
SampleRowKeys ==
    \A d \in DescribedSheets :
        \A r \in DOMAIN d[2].sample_rows :
            [j \in DOMAIN d[2].sample_rows[r] |-> d[2].sample_rows[r][j].key]
                = FirstColumns(d[1])

\* C26: for every table or sheet, truncated_columns is true exactly when
\* the table has more columns than max_columns; preview_columns and the
\* keys of every sample row are the first min(column count, max_columns)
\* columns in original order; at most sample_rows sample rows and at most
\* 10 sheets are described.
C26_PreviewIsFirstColumns == TruncationAndCaps /\ SampleRowKeys

\* what the statement calls a faulty request: a filename that is missing,
\* an extension that the flavor does not take, an upload over the limit
Extension(filename) == IF Len(filename) >= 2 THEN lower(filename[Len(filename)]) ELSE ""

Supported(kind) ==
    CASE kind = "transform" -> {"xlsx"}
      [] kind = "analytics" -> {"csv", "txt", "xlsx"}
      [] kind = "report" -> {"csv", "txt", "md", "xlsx"}

Faulty(req) ==
    \E i \in DOMAIN req.uploads :
        \/ req.uploads[i].filename \in {<<>>, <<"">>}
        \/ Extension(req.uploads[i].filename) \notin Supported(req.kind)
        \/ req.uploads[i].size > max_bytes

\* C25: a create-job request with a missing filename, an unsupported file
\* extension or an upload over the size limit is rejected, and answering
\* it creates no job row and dispatches no run.
C25_FaultyRequestCreatesNothing ==
    [][(request' # None /\ Faulty(request'[1])) =>
          /\ request'[1].status \in {"400", "413"}
          /\ rows' = rows
          /\ queue' = queue
          /\ run' = run]_vars

\* an upload over the limit was refused after the work directory of a new
\* job id was made: the directory is there, no row and no dispatch are
C25_Witness ==
    /\ request # None
    /\ request[1].status = "413"
    /\ nextJob = 1
    /\ files[1].dir
    /\ rows = <<>>
    /\ queue[1] = 0

C28_EveryFlavorRetriesOnce ==
    \A r \in RunIds :
        (run[r].pc = "done" /\ run[r].first_error = Some(ReadTimeoutError)) =>
            run[r].calls = 2

\* the rows that the step turns failed
TurnedFailed ==
    {j \in DOMAIN rows \cap DOMAIN rows' :
        rows[j].status # "failed" /\ rows'[j].status = "failed"}

\* C31: when a job fails, the stage label and the detail text that were on
\* the row at the moment of the failure are still on the row after the
\* terminal failed update; that update changes only the status, the finish
\* timestamp and the error.
C31_FailureKeepsStageAndDetail ==
    [][\A j \in TurnedFailed :
          rows'[j] = [rows[j] EXCEPT !.status = "failed",
                                     !.finished_at = rows'[j].finished_at,
                                     !.error = rows'[j].error]]_vars

\* C32: once the generation step of a run has succeeded (the run holds the
\* generated code), the model identifier of the job's row is set, and it
\* stays set whatever happens later in the run, a failure in validation or
\* in the sandbox included.
C32_ModelSetOnceCodegenSucceeds ==
    \A r \in RunIds :
        (run[r].codegen # None /\ RowExists(run[r].job)) =>
            rows[run[r].job].llm_model # None

\* C33: for both sandboxed flavors, a sandbox run whose output exceeds the
\* configured maximum output size makes the job end failed: every succeeded
\* transform or analytics job has output within the size cap.
C33_SucceededOutputWithinCap ==
    \A j \in DOMAIN rows :
        (rows[j].kind \in {"transform", "analytics"} /\ rows[j].status = "succeeded") =>
            files[j].output # "big"

\* C34: every run invoked on an existing job eventually writes a terminal
\* status (succeeded or failed), when the job's row is not deleted and
\* every model call and every wait for the sandbox returns, raises or
\* times out: no run stays in flight forever.
C34_RunWritesTerminal ==
    \A r \in RunIds :
        Started(r) ~> (run[r].pc = "done" /\ wlog[r].terminals >= 1
                       /\ IsTerminal(LastWrite(r)))

\* a run whose sandbox child timed out has written its terminal status
C34_Witness ==
    \E r \in RunIds :
        /\ run[r].pc = "done"
        /\ run[r].sandbox = "timeout"
        /\ wlog[r].terminals >= 1

\* C35: when two run invocations process the same job id concurrently,
\* every sandbox child still executes exactly the code text that the run
\* which launched it had validated.
C35_ChildRunsValidatedCode ==
    \A r \in RunIds :
        (run[r].pc = "wait" /\ run[r].launched /\ run[r].child # None) =>
            run[r].child = run[r].validated

\* C36: code that passed validate_generated_code with required function f
\* has a callable f in its module namespace when the sandbox child loads
\* it: no child that ran validated code exits with code 3.
C36_ValidatedCodeHasEntry ==
    \A r \in RunIds :
        (run[r].pc = "done" /\ run[r].validated # None /\ run[r].launched) =>
            LastWrite(r).error # Some(StrOrRepr(SandboxFailed("3")))

\* a is the beginning of b
IsPrefix(a, b) == Len(a) <= Len(b) /\ a = SubSeq(b, 1, Len(a))

\* C37: during a streaming generation every text passed to on_update is
\* the concatenation, in arrival order, of the non-empty deltas received
\* so far, hence a prefix of the final content; when the stream ends
\* normally on_update is called one last time with the complete content,
\* before the payload is extracted and before a failure of the extraction
\* is raised.
C37_UpdatesArePrefixes ==
    pacer # None =>
        LET p == pacer[1]
        IN  /\ \A i \in DOMAIN p.parts : p.parts[i] # ""
            /\ \A i \in DOMAIN p.calls : IsPrefix(p.calls[i].parts, p.parts)
            /\ \A i \in DOMAIN p.calls : \A k \in DOMAIN p.calls :
                  i <= k => IsPrefix(p.calls[i].parts, p.calls[k].parts)
            /\ p.state \in {"returned", "no_payload"} =>
                  /\ p.calls # <<>>
                  /\ p.calls[Len(p.calls)].final
                  /\ p.calls[Len(p.calls)].parts = p.parts
            /\ p.state \in {"streaming", "raised"} =>
                  \A i \in DOMAIN p.calls : ~p.calls[i].final

\* an update with one delta, an update with two, deltas in between that
\* were not sent, and the last call with all three before the extraction
\* failed
C37_Witness ==
    /\ pacer # None
    /\ pacer[1].state = "no_payload"
    /\ Len(pacer[1].parts) = 3
    /\ Len(pacer[1].calls) = 2
    /\ pacer[1].calls[1].parts = <<"a">>
    /\ pacer[1].calls[2].parts = <<"a", "b", "b">>

\* the columns an update can write, and the columns it has no argument for
Written ==
    {"started_at", "finished_at", "llm_model", "summary", "error", "stage", "progress"}
NeverWritten == {"kind", "created_at"}

\* row `after` is row `before` with the non-null arguments of a stored and
\* nothing else changed
OnlySupplied(before, after, a) ==
    /\ \A f \in Written :
          after[f] = IF a[f] = None THEN before[f] ELSE a[f]
    /\ after.status = IF a.status = None THEN before.status ELSE a.status[1]
    /\ IF a.detail = None
       THEN after.detail = before.detail
       ELSE after.detail # None /\ after.detail[1].src = a.detail[1].src
    /\ \A f \in NeverWritten : after[f] = before[f]

\* C38: an update of a job row changes exactly the fields whose argument
\* is non-null and leaves every other field of the row unchanged, so an
\* update never resets a field to null; an update for a job id with no row
\* raises KeyError and neither creates a row nor changes any other row.
C38_UpdateStoresOnlySupplied ==
    [][/\ DOMAIN rows' = DOMAIN rows
       /\ \A j \in StoreJobs :
             /\ wlog'[j] # wlog[j] =>
                   /\ j \in DOMAIN rows
                   /\ OnlySupplied(rows[j], rows'[j], wlog'[j].last[1])
                   /\ \A o \in DOMAIN rows \ {j} : rows'[o] = rows[o]
                   /\ run' = run
             /\ run'[j] # run[j] =>
                   /\ j \notin DOMAIN rows
                   /\ run'[j].exc = Some(KeyError)
                   /\ rows' = rows
                   /\ wlog' = wlog
             /\ (wlog'[j] = wlog[j] /\ j \in DOMAIN rows) =>
                   rows'[j] = rows[j]
             /\ (j \in DOMAIN rows /\ rows[j].error # None) => rows'[j].error # None
             /\ (j \in DOMAIN rows /\ rows[j].detail # None) => rows'[j].detail # None]_vars

\* a row that failed with an error and holds a detail is then updated as
\* succeeded with error and detail null: both stay; next to it an update
\* for a job id without a row raised KeyError
C38_Witness ==
    /\ DOMAIN rows = {1}
    /\ rows[1].status = "succeeded"
    /\ wlog[1].last = Some(SucceededArgs(1, "analytics", Some(ArtifactMapping)))
    /\ rows[1].error = Some(StrOrRepr(NoApiKey))
    /\ rows[1].detail # None
    /\ run[2].exc = Some(KeyError)

====
